--------------------------- MODULE MCPrivateWings ---------------------------
(* Instances of PrivateWings: three flights on private wings.               *)
EXTENDS PrivateWings, TLC

CONSTANTS a, b, f1, f2, f3, s, r1, r2, r3

Plain(u) == [owner |-> u, brand |-> None, slug |-> s]
Branded(u) == [owner |-> u, brand |-> u, slug |-> s]
On(u, w) == [owner |-> u, wing |-> w]

\* A pilot's two flights on one wing, with a brand of the pilot's own.
TwoOnOne == [f \in {f1, f2} |-> On(a, Branded(a))]
\* Two pilots' wings of one name, a flight on each.
OneEach == [f \in {f1, f2} |-> IF f = f1 THEN On(a, Plain(a)) ELSE On(b, Plain(b))]

SomeLoads ==
  {[ops |-> Op, requests |-> 2, flights |-> l] : l \in {TwoOnOne, OneEach}}
  \union {[ops |-> o, requests |-> 3, flights |-> l] :
            o \in {{"delete", "transfer"}, {"delete", "edit"}}, l \in {TwoOnOne, OneEach}}

RequestSymmetry == Permutations(Request)
=============================================================================
