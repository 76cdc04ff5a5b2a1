--------------------------- MODULE MCEffectMachine ---------------------------
(***************************************************************************)
(* Programs for EffectMachine.                                             *)
(***************************************************************************)
EXTENDS EffectMachine

(* Does the term use the resumption of the clause it is in?                *)
RECURSIVE Resumes(_)
Resumes(t) ==
  \/ t.op = "resume"
  \/ \E part \in DOMAIN t \cap {"m", "n", "h", "fin", "cond"} : Resumes(t[part])
  \/ t.op = "oneOf" /\ \E x \in t.terms : Resumes(x)

(* tailResumptiveClause: the one use of the resumption is the last thing   *)
(* the clause does, whatever it does before.                               *)
RECURSIVE TailResumptive(_)
TailResumptive(t) ==
  \/ t.op = "resume"
  \/ t.op = "then" /\ ~Resumes(t.m) /\ TailResumptive(t.n)
  \/ t.op = "doscope" /\ TailResumptive(t.m)

(* A deep handler as the elaborator makes it.                              *)
Deep(label, clause, m) == Handle(label, TRUE, TailResumptive(clause), clause, m)
Shallow(label, clause, m) == Handle(label, FALSE, FALSE, clause, m)

Leaf == OneOf({Pure, Throw, Await})

(* The way a clause may go that does not run in place.                     *)
Clause == OneOf({Pure, Throw, Resume, Then(Resume, Leaf), DoScope(Then(Defer(Pure), Resume))})

(* A scope in an inner handler; what exit actions and clauses do is given. *)
Scope(fin, fin2, m) == DoScope(Then(Defer(fin), Then(Defer(fin2), m)))

Drained == Deep("a", Pure, Scope(Pure, Pure, Then(Perform("a"), Pure)))

Nested ==
  Then(Deep("a", Clause, Deep("b", OneOf({Clause, Perform("a"), Then(Perform("a"), Resume)}),
         Scope(Leaf, Leaf, Then(Perform("b"), Then(Perform("a"), Leaf))))),
       Drained)

Outward ==
  Then(Deep("a", OneOf({Resume, Then(Resume, Leaf), DoScope(Then(Defer(Pure), Resume))}),
            Deep("b", Clause, Scope(Perform("a"), OneOf({Pure, Throw, Perform("a")}), Perform("b")))),
       Drained)

Foreign ==
  Then(Deep("a", OneOf({Pure, Throw}),
            Deep("b", OneOf({Pure, Throw}), Scope(Leaf, Perform("a"), Then(Perform("b"), Pure)))),
       Drained)

Masking ==
  RetScope(CatchError(
    Deep("a", Clause,
      Mask(Masked, Scope(OneOf({Poll, Mask(Uninterruptible, Restore(Await))}), Restore(Leaf),
             OneOf({Return, Restore(Then(Await, Perform("a"))), Then(Perform("a"), Poll)})))),
    Leaf))

InPlace ==
  Deep("a", Mask(Masked, Resume),
    Then(Deep("b", Then(Pure, Resume), Scope(Perform("b"), Leaf, Then(Perform("a"), Perform("b")))),
         Shallow("b", Clause, Scope(Pure, Leaf, Then(Perform("b"), Perform("a"))))))

Looping ==
  RetScope(Deep("a", OneOf({Pure, Resume, Then(Resume, Throw)}),
    CatchError(While(OneOf({Pure, Throw}),
                     Then(Defer(OneOf({Pure, Throw})),
                          OneOf({Pure, Break, ContinueLoop, Return, Perform("a")}))),
               Pure)))

(* Requests made in a masked loop wait for a restored region in it.        *)
MaskedLoop ==
  Mask(Masked, While(Pure, Then(Defer(Leaf),
                 OneOf({Break, Restore(ContinueLoop), Restore(While(Pure, Break))}))))

Programs == {Nested, Outward, Foreign, Masking, InPlace, Looping, MaskedLoop}

(* A clause that counts as tail-resumptive but fails before it resumes: no *)
(* guard is installed and NoFrameIsLost does not hold.                     *)
TailPrograms == {Deep("a", Then(Leaf, Resume), Scope(Pure, Pure, Perform("a")))}
=============================================================================
