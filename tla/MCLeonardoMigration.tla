------------------------ MODULE MCLeonardoMigration ------------------------
(***************************************************************************)
(* Source databases of one to nine pilots.                                 *)
(***************************************************************************)
EXTENDS LeonardoMigration, TLC

TheLower == [w \in {"Bob", "bob", "Lee", "Ann", "pilot_", "Cat", "ann", "lee", "cat"} |->
               CASE w = "Bob" -> "bob" [] w = "Lee" -> "lee" [] w = "Ann" -> "ann" [] w = "Cat" -> "cat"
                 [] OTHER -> w]

TheLatin == [w \in {"Ozone", "Aeros", "Delta", "DELTA", "delta4", "delta4.", "Combat", "Sport_ru", "ASW"} |->
               CASE w = "Ozone" -> "ozone" [] w = "Aeros" -> "aeros" [] w \in {"Delta", "DELTA"} -> "delta"
                 [] w = "delta4." -> "delta4" [] w = "Combat" -> "combat" [] w = "ASW" -> "asw" [] w = "Sport_ru" -> NULL [] OTHER -> w]

TheClasses == [kind \in {"pg", "hg", "sp"} |->
                 CASE kind = "pg" -> {"en_a", "en_b", "en_c", "en_d", "ccc"}
                   [] kind = "hg" -> {"single_surface", "kingpost", "topless", "rigid"}
                   [] kind = "sp" -> {"standard", "club", "open"}]

Pilot(id, first, last, login, email) ==
  [id |-> id, server |-> 0, account |-> TRUE, first |-> first, last |-> last, nick |-> NULL,
   username |-> login, email |-> email, active |-> TRUE, civl |-> id - 1, country |-> <<"k", "z">>, sex |-> "m"]

Flight(id, user, cat, brand, glider) ==
  [id |-> id, user |-> user, server |-> 0, named |-> TRUE, file |-> "flight", cat |-> cat, brand |-> brand,
   glider |-> glider, cert |-> {64, 128}, category |-> 3, start |-> 1]

Model(brand, kind, name, class) == [brand |-> <<brand>>, kind |-> kind, model |-> <<name>>, class |-> class,
                                    tandem |-> FALSE]

Short == <<Model("Ozone", "pg", "Delta", "en_c"), Model("Aeros", "hg", "Combat", "topless")>>
Long  == Append(Short, Model("Aeros", "hg", "ASW", "rigid"))
Twice == <<Model("Ozone", "pg", "Delta", "en_c"), Model("Ozone", "pg", "DELTA", "en_b")>>

Brands3 == [n \in 1..3 |-> CASE n = 1 -> <<"Ozone">> [] n = 2 -> <<"Aeros">> [] n = 3 -> <<"Sport_ru">>]

Aliases == {[brand |-> <<"ozone">>, kind |-> "pg", model |-> <<"Delta">>, texts |-> {<<"delta4">>}]}

Native(words, login, email) ==
  [id |-> 0, name |-> [words |-> words, suffix |-> 0], login |-> login, email |-> email, active |-> TRUE]

World(pilots, sources) ==
  [pilots |-> pilots, flights |-> sources, leoBrands |-> Brands3, aliases |-> Aliases,
   catalogues |-> <<Short>>, natives |-> << >>, operators |-> {"op"}, kills |-> 1, deletions |-> 0]

Pg(id, user) == Flight(id, user, {"pg"}, 1, <<"Delta">>)
Own(id, user) == Flight(id, user, {"paramotor"}, 1, <<"Combat">>)

\* Names and logins that differ in case only, a nick that looks like a rename,
\* one address twice, a pilot without an account, one with too large an id.
Names ==
  World(<<Pilot(1, "Bob", NULL, "Bob", "b@x"), Pilot(2, "Bob", NULL, "lee", "b@x"),
          [Pilot(3, NULL, NULL, "Cat", NULL) EXCEPT !.nick = [words |-> <<"Bob">>, suffix |-> 2], !.active = FALSE],
          Pilot(4, "bob", NULL, "Ann", "b@x"),
          [Pilot(5, "Ann", "Lee", "cat", NULL) EXCEPT !.account = FALSE, !.country = <<"k">>, !.sex = ""],
          Pilot(6, NULL, NULL, NULL, NULL), Pilot(7, "Cat", NULL, "Lee", NULL), Pilot(8, "Ann", "Cat", "pilot_", "b@x"),
          Pilot(12, "Lee", NULL, "bob", NULL)>>,
        <<Pg(1, 1), Own(2, 2), Pg(3, 3), Own(4, 4), Pg(5, 5), Own(6, 6), Own(7, 7), Pg(8, 12), Pg(9, 8)>>)

\* The wings of a pilot's flights, and what can be wrong with them.
Wings(two, three) ==
  [World(<<Pilot(1, "Ann", NULL, "Ann", "a@x"), Pilot(2, "Cat", NULL, "Cat", "c@x")>>,
         <<Own(1, 1), two, three, Own(9, 2)>>) EXCEPT !.deletions = 1, !.catalogues = <<Twice, Short, Long>>]

Kinds ==
  {Pg(2, 1), Flight(2, 1, {"pg"}, 1, <<"delta4">>), Flight(2, 1, {"pg"}, 1, <<"Sport_ru">>),
   Flight(2, 1, {"flex"}, 2, <<"ASW">>), Flight(2, 1, {"rigid"}, 2, <<"ASW">>),
   [Flight(2, 1, {"flex"}, 2, <<"Delta">>) EXCEPT !.category = 1, !.start = 2],
   [Flight(2, 1, {"flex"}, 2, <<"Delta">>) EXCEPT !.category = 2, !.start = 4],
   Flight(2, 1, {"sp"}, 2, <<"ASW">>), Flight(2, 1, {"powered"}, 1, <<"Delta">>),
   Flight(2, 1, {"pg"}, 0, <<"Delta">>), Flight(2, 1, {"pg"}, 7, <<"Delta">>), Flight(2, 1, {"pg"}, 3, <<"Delta">>)}

Repeats == {Own(3, 1), [Own(3, 1) EXCEPT !.file = "ground", !.glider = <<"ASW">>], [Own(3, 2) EXCEPT !.file = "missing"]}

\* The wing of the first flight is needed again.
Overlap ==
  [World(<<Pilot(1, "Ann", NULL, "Ann", "a@x")>>, <<Own(1, 1), [Own(2, 1) EXCEPT !.file = "ground"], Own(3, 1)>>)
     EXCEPT !.operators = {"op", "other"}, !.kills = 0, !.deletions = 1]

\* Two spellings of one wing, the first of which is an alias.
Twins ==
  [World(<<Pilot(1, "Ann", NULL, "Ann", "a@x")>>,
         <<Flight(1, 1, {"pg"}, 1, <<"delta4">>), Flight(2, 1, {"pg"}, 1, <<"delta4.">>)>>)
     EXCEPT !.operators = {"op", "other"}, !.kills = 0]

Crowd ==
  [World(<<Pilot(1, "Ann", NULL, "Ann", "a@x"), Pilot(3, "Cat", NULL, "Cat", "c@x")>>, <<Pg(1, 1), Own(2, 3)>>)
     EXCEPT !.natives = <<Native(<<"ann">>, NULL, NULL), Native(<<"lee">>, NULL, "c@x")>>]

NoFile == [Names EXCEPT !.leoBrands = NULL]
BadAlias == [Names EXCEPT !.aliases = {[brand |-> <<"aeros">>, kind |-> "pg", model |-> <<"Delta">>, texts |-> {}]}]

AllWorlds == {Names, Overlap, Twins, Crowd, NoFile, BadAlias} \cup {Wings(two, three) : two \in Kinds, three \in Repeats}
=============================================================================
