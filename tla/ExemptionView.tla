--------------------------- MODULE ExemptionView ---------------------------
(***************************************************************************)
(* What an exemption store promises, without its data structures: the      *)
(* matchers it answers for a policy are those of the exemptions the        *)
(* replica has last seen, no more and no fewer.                            *)
(***************************************************************************)
CONSTANTS Replica, Owner, Policy, NoExemption

VARIABLES seen,     \* replica -> owner -> the exemption's elements or NoExemption
          answers   \* replica -> policy -> set of matchers

Matching(spec, policy) ==
  IF spec = NoExemption THEN {}
  ELSE {e.matcher : e \in {f \in spec : policy \in f.policies}}

AnswersFor(view) == [p \in Policy |-> UNION {Matching(view[o], p) : o \in Owner}]

Nothing == [o \in Owner |-> NoExemption]

Init == /\ seen = [r \in Replica |-> Nothing]
        /\ answers = [r \in Replica |-> AnswersFor(Nothing)]

(* A replica learns something about the exemptions, or starts again.       *)
Learn(r, view) == /\ seen' = [seen EXCEPT ![r] = view]
                  /\ answers' = [answers EXCEPT ![r] = AnswersFor(view)]

Next == \E r \in Replica : Learn(r, seen'[r])

Spec == Init /\ [][Next]_<<seen, answers>>
=============================================================================
