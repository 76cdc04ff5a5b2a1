------------------------------ MODULE RefCount ------------------------------
(***************************************************************************)
(* The reference counts of heap values (runtime/kappart.h, value.c).  A    *)
(* count word holds a count, a saturated bit and a shared bit.  While the  *)
(* shared bit is clear the value belongs to one thread, which updates the  *)
(* count by a plain load and store; before a value is handed to another    *)
(* thread krc_mark_shared_recursive sets the bit on all it reaches, and    *)
(* counts of shared values are updated by atomic operations.  A count of   *)
(* zero frees a constructor at once and drops its fields; a cell is left   *)
(* to the collector.                                                       *)
(*                                                                         *)
(* Compiled code owns references and gives each up exactly once; here it   *)
(* is a free choice of operations on references the thread owns, bounded   *)
(* by MaxOps.  An operation is a list of micro-operations, one per access  *)
(* of a count word or critical section.  A value has one field: a          *)
(* constructor argument or the content of a cell (kref and karr alike).    *)
(***************************************************************************)
EXTENDS Naturals, Sequences, FiniteSets

CONSTANTS Object,    \* heap addresses; a freed one is not used again
          Thread,
          Nil,       \* an immediate value, which has no count
          SATURATED, \* KRC_SATURATED_BIT, 2^30: what the count never reaches
          MaxOps     \* bound on the operations the threads begin

(* There are fewer threads than a count word has room for increments that  *)
(* are under way when the count is at its maximum.                         *)
ASSUME RefCountAssumption ==
  /\ Nil \notin Object \cup Thread
  /\ IsFiniteSet(Thread) /\ Cardinality(Thread) <= SATURATED
  /\ SATURATED \in Nat \ {0, 1} /\ MaxOps \in Nat

VARIABLES tag,      \* "none" before alloc_val, "ctor", "ref", "freed"
          rc,       \* the count word
          field,    \* the constructor's argument, the cell's content
          owned,    \* how many references each thread's program owns
          code,     \* what is left of the operation the thread executes
          markLock, \* holder of the lock of kshared_mark_lock
          cellLock, \* holder of each cell's mutex
          ops       \* bound: operations the threads may still begin

vars == <<tag, rc, field, owned, code, markLock, cellLock, ops>>

SHARED == 2 * SATURATED
COUNT_MASK == SATURATED - 1

IsShared(w) == w >= SHARED
IsSaturated(w) == (w % SHARED) >= SATURATED
Count(w) == w % SATURATED

(* kis_rc_freeable.                                                        *)
Freeable(o) == tag[o] = "ctor"

(* A micro-operation: what, on which value, with which word (w), second    *)
(* value or thread (x) or tag (k).                                         *)
M(o, v) == [op |-> o, v |-> v, w |-> 0, x |-> Nil, k |-> ""]
Dup(v) == IF v = Nil THEN <<>> ELSE <<M("dup", v)>>
Drop(v) == IF v = Nil THEN <<>> ELSE <<M("drop", v)>>
Own(v) == IF v = Nil THEN <<>> ELSE <<M("own", v)>>

(* krc_mark_shared_recursive: the walk runs under the mark lock.           *)
Mark(v) == IF v = Nil THEN <<>>
           ELSE <<M("markLock", v), M("shade", v), M("markUnlock", v)>>

(* Two objects: a constructor or a cell that holds a constructor, owned by *)
(* one thread, as compiled code has built them.                            *)
Init ==
  \E t \in Thread, a, b \in Object, k \in {"ctor", "ref"} :
    /\ a # b
    /\ tag = [o \in Object |-> IF o = a THEN k ELSE IF o = b THEN "ctor" ELSE "none"]
    /\ rc = [o \in Object |-> IF o \in {a, b} THEN 1 ELSE 0]
    /\ field = [o \in Object |-> IF o = a THEN b ELSE Nil]
    /\ owned = [u \in Thread |-> [o \in Object |-> IF u = t /\ o = a THEN 1 ELSE 0]]
    /\ code = [u \in Thread |-> <<>>]
    /\ markLock = Nil
    /\ cellLock = [o \in Object |-> Nil]
    /\ ops = MaxOps

-----------------------------------------------------------------------------
(* Micro-operations.  Head(code[t]) is executed; Then says what follows.   *)

Do(t, o) == code[t] # <<>> /\ Head(code[t]).op = o
V(t) == Head(code[t]).v
W(t) == Head(code[t]).w
X(t) == Head(code[t]).x
K(t) == Head(code[t]).k
Rest(t) == Tail(code[t])
Then(t, c) == code' = [code EXCEPT ![t] = c \o Rest(t)]
SetRc(v, w) == rc' = [rc EXCEPT ![v] = w]

(* kdup: the word is read, then a plain store or an atomic add follows.    *)
DupRead(t) ==
  /\ Do(t, "dup")
  /\ LET v == V(t)
         w == rc[v]
     IN Then(t, IF IsSaturated(w) THEN <<>>
                ELSE IF IsShared(w)
                THEN <<M(IF Count(w) >= COUNT_MASK THEN "saturate" ELSE "add", v)>>
                ELSE <<[M("store", v) EXCEPT !.w = IF Count(w) >= COUNT_MASK THEN SATURATED ELSE w + 1]>>)
  /\ UNCHANGED <<tag, rc, field, owned, markLock, cellLock, ops>>

(* v->rc = n: no other thread is supposed to touch the word.               *)
Store(t) ==
  /\ Do(t, "store")
  /\ SetRc(V(t), W(t))
  /\ Then(t, <<>>)
  /\ UNCHANGED <<tag, field, owned, markLock, cellLock, ops>>

(* krc_shared_relaxed_increment_from: the addition, on a word of the       *)
(* width of the code's, and the saturating store that follows when needed. *)
Add(t) ==
  /\ Do(t, "add")
  /\ SetRc(V(t), (rc[V(t)] + 1) % (2 * SHARED))
  /\ Then(t, IF IsSaturated(rc[V(t)]) \/ Count(rc[V(t)]) >= COUNT_MASK
             THEN <<M("saturate", V(t))>> ELSE <<>>)
  /\ UNCHANGED <<tag, field, owned, markLock, cellLock, ops>>

(* krc_store_shared_saturated.                                             *)
Saturate(t) ==
  /\ Do(t, "saturate")
  /\ SetRc(V(t), SHARED + SATURATED)
  /\ Then(t, <<>>)
  /\ UNCHANGED <<tag, field, owned, markLock, cellLock, ops>>

(* A count of one was given up: the value is freed, after the value whose  *)
(* field it was.                                                           *)
FreeLast(t, v, w) ==
  IF ~(Count(w) = 1 /\ Freeable(v)) THEN Rest(t)
  ELSE IF Rest(t) # <<>> /\ Head(Rest(t)).op = "poison"
  THEN <<Head(Rest(t)), M("free", v)>> \o Tail(Rest(t))
  ELSE <<M("free", v)>> \o Rest(t)

(* kdrop and kfree_drop_child: the read and, for a value of one thread,    *)
(* what to store; a count of zero is left alone.                           *)
DropRead(t) ==
  /\ Do(t, "drop")
  /\ LET v == V(t)
         w == rc[v]
     IN code' = [code EXCEPT ![t] =
          IF IsSaturated(w) \/ Count(w) = 0 THEN Rest(t)
          ELSE IF IsShared(w) THEN <<[M("cas", v) EXCEPT !.w = w]>> \o Rest(t)
          ELSE <<[M("store", v) EXCEPT !.w = w - 1]>> \o FreeLast(t, v, w)]
  /\ UNCHANGED <<tag, rc, field, owned, markLock, cellLock, ops>>

(* Mutation: the decrement is written back without a comparison.           *)
NoCompare(v, w) == TRUE

(* The comparison of the compare-and-swap.                                 *)
Unmoved(v, w) == rc[v] = w

(* krc_shared_release_decrement: one turn of the compare-and-swap loop.    *)
DropCas(t) ==
  /\ Do(t, "cas")
  /\ LET v == V(t)
         w == W(t)
     IN IF Unmoved(v, w)
        THEN /\ SetRc(v, w - 1)
             /\ code' = [code EXCEPT ![t] = FreeLast(t, v, w)]
        ELSE /\ Then(t, IF IsSaturated(rc[v]) \/ Count(rc[v]) = 0 THEN <<>>
                        ELSE <<[M("cas", v) EXCEPT !.w = rc[v]]>>)
             /\ UNCHANGED rc
  /\ UNCHANGED <<tag, field, owned, markLock, cellLock, ops>>

(* kfree_recursive_impl takes a value from its stack and looks at it       *)
(* again; kfree_visit drops its field, then frees it.                      *)
Free(t) ==
  /\ Do(t, "free")
  /\ Then(t, IF Freeable(V(t)) /\ Count(rc[V(t)]) = 0 /\ ~IsSaturated(rc[V(t)])
             THEN Drop(field[V(t)]) \o <<M("poison", V(t))>> ELSE <<>>)
  /\ UNCHANGED <<tag, rc, field, owned, markLock, cellLock, ops>>

Poison(t) ==
  /\ Do(t, "poison")
  /\ tag' = [tag EXCEPT ![V(t)] = "freed"]
  /\ SetRc(V(t), 0)
  /\ Then(t, <<>>)
  /\ UNCHANGED <<field, owned, markLock, cellLock, ops>>

Locks(t) ==
  /\ \/ Do(t, "markLock") /\ markLock = Nil /\ markLock' = t /\ UNCHANGED cellLock
     \/ Do(t, "markUnlock") /\ markLock' = Nil /\ UNCHANGED cellLock
     \/ Do(t, "cellUnlock") /\ cellLock' = [cellLock EXCEPT ![V(t)] = Nil] /\ UNCHANGED markLock
  /\ Then(t, <<>>)
  /\ UNCHANGED <<tag, rc, field, owned, ops>>

(* Mutation: only the value that is handed over is marked.                 *)
ShadeRoot(v) == <<>>

(* krc_mark_children: the walk goes on with what the value holds.          *)
ShadeField(v) == IF field[v] = Nil THEN <<>> ELSE <<[M("shade", field[v]) EXCEPT !.k = tag[v]]>>

(* krc_mark_child and krc_mark_mutable_child: a shared value ends the      *)
(* walk; the content of a cell is kept by a reference of the walk's own.   *)
Shade(t) ==
  /\ Do(t, "shade")
  /\ LET v == V(t)
         fresh == ~IsShared(rc[v])
         keep == K(t) = "ref"
     IN /\ SetRc(v, IF fresh THEN rc[v] + SHARED ELSE rc[v])
        /\ Then(t, IF ~fresh THEN <<>>
                   ELSE (IF keep THEN Dup(v) ELSE <<>>) \o ShadeField(v)
                        \o (IF keep THEN Drop(v) ELSE <<>>))
  /\ UNCHANGED <<tag, field, owned, markLock, cellLock, ops>>

(* The result of an operation becomes a reference of the program.          *)
OwnValue(t) ==
  /\ Do(t, "own")
  /\ owned' = [owned EXCEPT ![t][V(t)] = @ + 1]
  /\ Then(t, <<>>)
  /\ UNCHANGED <<tag, rc, field, markLock, cellLock, ops>>

(* The other thread takes the value from the promise, the queue or the     *)
(* exit it was published in.                                               *)
Give(t) ==
  /\ Do(t, "give")
  /\ owned' = [owned EXCEPT ![X(t)][V(t)] = @ + 1]
  /\ Then(t, <<>>)
  /\ UNCHANGED <<tag, rc, field, markLock, cellLock, ops>>

(* kctor, kref_new: a fresh value takes over the reference to its field.   *)
Alloc(t) ==
  /\ Do(t, "alloc")
  /\ \E o \in Object :
       /\ tag[o] = "none"
       /\ tag' = [tag EXCEPT ![o] = K(t)]
       /\ field' = [field EXCEPT ![o] = V(t)]
       /\ SetRc(o, 1)
       /\ owned' = [owned EXCEPT ![t][o] = 1]
  /\ Then(t, <<>>)
  /\ UNCHANGED <<markLock, cellLock, ops>>

(* kctor_rewrite_reused_cell.                                              *)
Rewrite(t) ==
  /\ Do(t, "rewrite")
  /\ field' = [field EXCEPT ![V(t)] = X(t)]
  /\ SetRc(V(t), 1)
  /\ owned' = [owned EXCEPT ![t][V(t)] = @ + 1]
  /\ Then(t, <<>>)
  /\ UNCHANGED <<tag, markLock, cellLock, ops>>

(* kref_set, karr_set: the exchange, under the mutex when the cell is      *)
(* shared; the old content is dropped after the unlock.                    *)
Swap(t) ==
  /\ Do(t, "swap")
  /\ IsShared(rc[V(t)]) => cellLock[V(t)] = Nil
  /\ field' = [field EXCEPT ![V(t)] = X(t)]
  /\ Then(t, Drop(field[V(t)]))
  /\ UNCHANGED <<tag, rc, owned, markLock, cellLock, ops>>

(* kref_get, karr_get: the mutex of a shared cell is held over the kdup.   *)
CellGet(t) ==
  /\ Do(t, "get")
  /\ LET r == V(t) IN
     IF IsShared(rc[r])
     THEN /\ cellLock[r] = Nil
          /\ cellLock' = [cellLock EXCEPT ![r] = t]
          /\ Then(t, Dup(field[r]) \o <<M("cellUnlock", r)>> \o Own(field[r]))
     ELSE /\ Then(t, Dup(field[r]) \o Own(field[r]))
          /\ UNCHANGED cellLock
  /\ UNCHANGED <<tag, rc, field, owned, markLock, ops>>

Micro(t) ==
  \/ DupRead(t) \/ Store(t) \/ Add(t) \/ Saturate(t) \/ DropRead(t) \/ DropCas(t)
  \/ Free(t) \/ Poison(t) \/ Locks(t) \/ Shade(t) \/ OwnValue(t) \/ Give(t)
  \/ Alloc(t) \/ Rewrite(t) \/ Swap(t) \/ CellGet(t)

-----------------------------------------------------------------------------
(* What compiled code may do next with the references it owns.             *)

Has(t, o) == o # Nil /\ owned[t][o] > 0
Fresh == \E o \in Object : tag[o] = "none"

(* The operation c begins; the references in gone pass to it.              *)
Begin(t, c, gone) ==
  /\ code[t] = <<>> /\ ops > 0
  /\ ops' = ops - 1
  /\ code' = [code EXCEPT ![t] = c]
  /\ owned' = [owned EXCEPT ![t] = [o \in Object |-> IF o \in gone THEN @[o] - 1 ELSE @[o]]]
  /\ UNCHANGED <<tag, rc, field, markLock, cellLock>>

Copy(t, o) == Has(t, o) /\ Begin(t, Dup(o) \o Own(o), {})
Release(t, o) == Has(t, o) /\ Begin(t, Drop(o), {o})

(* kctor_arg and the kdup compiled code puts around it.                    *)
Project(t, o) ==
  /\ Has(t, o) /\ tag[o] = "ctor" /\ field[o] # Nil
  /\ Begin(t, Dup(field[o]) \o Own(field[o]), {})

Build(t, a, k) ==
  /\ (a = Nil \/ Has(t, a)) /\ Fresh
  /\ Begin(t, <<[M("alloc", a) EXCEPT !.k = k]>>, {a})

CellRead(t, r) == Has(t, r) /\ tag[r] = "ref" /\ Begin(t, <<M("get", r)>>, {})

CellWrite(t, r, a) ==
  /\ Has(t, r) /\ tag[r] = "ref" /\ a # r /\ (a = Nil \/ Has(t, a))
  /\ Begin(t, (IF IsShared(rc[r]) THEN Mark(a) ELSE <<>>) \o <<[M("swap", r) EXCEPT !.x = a]>>, {a})

(* A value leaves the thread: the action of a fork, the exit of a fiber,   *)
(* the value of a promise.                                                 *)
Publish(t, u, o) == t # u /\ Has(t, o) /\ Begin(t, Mark(o) \o <<[M("give", o) EXCEPT !.x = u]>>, {o})

(* The test of kdrop_reuse_ctor_alloc and ktry_reuse_ctor.                 *)
CanReuse(o) == rc[o] = 1 /\ tag[o] = "ctor"

(* Mutation: the source is dropped before the moved field is kept.         *)
DropsFirst(o, f) == Drop(o) \o Dup(f)

(* kctor_dup_moved_args comes before the drop of the source.               *)
DupsFirst(o, f) == Dup(f) \o Drop(o)

(* kdrop_reuse_ctor_alloc with the field moved from the source.            *)
ReuseMoved(t, o) ==
  /\ Has(t, o) /\ tag[o] = "ctor" /\ Fresh
  /\ LET f == field[o] IN
       Begin(t, IF CanReuse(o) THEN <<[M("rewrite", o) EXCEPT !.x = f]>>
                ELSE DupsFirst(o, f) \o <<[M("alloc", f) EXCEPT !.k = "ctor"]>>, {o})

(* kdrop_reuse_ctor_alloc and kdrop_reuse_ctor with kreuse_ctor: a new     *)
(* argument replaces the field, which kctor_drop_old_fields_except drops.  *)
ReuseArg(t, o, a) ==
  /\ Has(t, o) /\ tag[o] = "ctor" /\ (a = Nil \/ Has(t, a)) /\ a # o /\ Fresh
  /\ Begin(t, IF CanReuse(o) THEN Drop(field[o]) \o <<[M("rewrite", o) EXCEPT !.x = a]>>
              ELSE Drop(o) \o <<[M("alloc", a) EXCEPT !.k = "ctor"]>>, {o, a})

Program(t) ==
  \/ \E o \in Object :
       \/ Copy(t, o) \/ Release(t, o) \/ Project(t, o) \/ CellRead(t, o) \/ ReuseMoved(t, o)
       \/ \E u \in Thread : Publish(t, u, o)
       \/ \E a \in Object \cup {Nil} : CellWrite(t, o, a) \/ ReuseArg(t, o, a)
  \/ \E a \in Object \cup {Nil}, k \in {"ctor", "ref"} : Build(t, a, k)

Next == \E t \in Thread : Micro(t) \/ Program(t)

Spec == Init /\ [][Next]_vars

-----------------------------------------------------------------------------

(* What a thread in the middle of an operation is going to touch.          *)
InFlight(t) ==
  ({code[t][i].v : i \in DOMAIN code[t]}
     \cup {code[t][i].x : i \in {j \in DOMAIN code[t] : code[t][j].op \in {"swap", "rewrite"}}})
  \ {Nil}

(* A value its one holder takes apart, to free or to rewrite it.           *)
Torn(o) == \E t \in Thread : \E i \in DOMAIN code[t] :
             code[t][i].v = o /\ code[t][i].op \in {"poison", "rewrite"}

Live(o) == tag[o] \in {"ctor", "ref"}

(* kassert_live: no thread owns or is about to touch a freed value, and no *)
(* live value holds one, whatever the threads drop, reuse and overwrite at *)
(* the same time and however often a count has overflowed.                 *)
NoDangling ==
  /\ \A o \in Object : tag[o] = "freed" =>
       \A t \in Thread : owned[t][o] = 0 /\ o \notin InFlight(t)
  /\ \A o \in Object : Live(o) /\ ~Torn(o) /\ field[o] # Nil => Live(field[o])

Step(S) == S \cup ({field[o] : o \in S} \ {Nil})
Reach(t) ==
  LET S == InFlight(t) \cup {o \in Object : owned[t][o] > 0} IN Step(Step(Step(S)))

(* The contract of the shared bit: a value whose bit is clear is reachable *)
(* from one thread only, so that its plain loads and stores do not race    *)
(* (krc_mark_shared_recursive before every publication, kref_set).         *)
LocalIsPrivate ==
  \A o \in Object : Live(o) /\ ~IsShared(rc[o]) =>
    \A t, u \in Thread : o \in Reach(t) \cap Reach(u) => t = u

(* The sum over the threads t of n[t].                                     *)
Total(n) == Cardinality(UNION {{t} \X (1..n[t]) : t \in Thread})

References(o) ==
  Cardinality({p \in Object : Live(p) /\ field[p] = o})
    + Total([t \in Thread |-> owned[t][o]])

(* Between operations a count that is not saturated is the number of       *)
(* references there are, and a constructor without one has been freed: no  *)
(* increment or decrement is lost or done twice, in kdup, kdrop,           *)
(* kfree_drop_child, the mark walk or the reuse of a constructor.          *)
CountExact ==
  (\A t \in Thread : code[t] = <<>>) =>
    \A o \in Object : Live(o) /\ ~IsSaturated(rc[o]) =>
      /\ Count(rc[o]) = References(o)
      /\ tag[o] = "ctor" => Count(rc[o]) > 0

=============================================================================
