----------------------------- MODULE MCScoring -----------------------------
(***************************************************************************)
(* Flights for scoring: loops that close or almost close, long ones that    *)
(* wander, sweeps past two close turnpoints, straight lines, short ones,    *)
(* and a few without any design.                                           *)
(***************************************************************************)
EXTENDS Scoring, TLC

At(x, y) == [x |-> x, y |-> y]

Flight(points) == [i \in Indexes(Len(points)) |-> points[i + 1]]

\* The second fix stands still in half of them.
Loops ==
  {Flight(<<At(0, 0), b, c, d, e, f, g>>) :
     b \in {At(5, 0), At(0, 0)}, c \in {At(10, 0), At(9, 2)}, d \in {At(8, 4), At(12, 6)},
     e \in {At(5, 9), At(4, 8)}, f \in {At(3, 5), At(1, 3)}, g \in {At(1, 1), At(0, 3), At(6, 6)}}

LongFlights ==
  {Flight([i \in 1..20 |-> At(((i - 1) * 14) \div 19, 6 + (((i - 1) * a) % m))]) :
     a \in {2, 3}, m \in {5, 7}}

\* A and B close together, C anywhere on a long sweep across them.
Sweeps ==
  {Flight(<<At(5, 0), At(5, 1), At(x, 0), At(x, 1), At(0, y), At(7, y), At(14, y), At(5, z)>>) :
     x \in {8, 9}, y \in {3, 4}, z \in {1, 2}}

Straights == {Flight([i \in 1..6 |-> At(2 * i, 3)]), Flight([i \in 1..4 |-> At(2 * i, i * i)])}

Scatter(k, i, m) == ((k * k * 7) + (i * i * (3 + (k % 5))) + (i * k * 5) + (i * 11)) % m
Scattered ==
  {Flight([i \in 1..8 |-> At(Scatter(k, i, 14), Scatter(k + 17, i + 3, 13))]) : k \in 1..40}

AllTracks == Loops \cup LongFlights \cup Sweeps \cup Straights \cup Scattered
=============================================================================
