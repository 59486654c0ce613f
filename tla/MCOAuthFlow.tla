---------------------------- MODULE MCOAuthFlow ----------------------------
(* Instances of OAuthFlow: what meets the flows of a browser.              *)
EXTENDS OAuthFlow

Settings(visibility, n) == [visibility |-> visibility, id |-> n, secret |-> n]
Offered(p, row) == [q \in OAuthProvider |-> IF q = p THEN row ELSE NULL]
User(name, email) == [name |-> name, email |-> email, may |-> TRUE]
Banned(user) == [user EXCEPT !.may = FALSE]
Profile(subject, name, email, verified) ==
  [subject |-> subject, name |-> name, alias |-> NULL, email |-> email, verified |-> verified]
Only(p, bodies) == [q \in OAuthProvider |-> IF q = p THEN bodies ELSE {Denied}]
Left(starts, calls, edits, world) ==
  [starts |-> starts, calls |-> calls, edits |-> edits, world |-> world]
Submitted(id, secret, visibility) == [id |-> id, secret |-> secret, visibility |-> visibility]

Ann == <<7, 0, 0>>
ANN == <<7, 0, 1>>
Bob == <<8, 0, 0>>

Plain ==
  [left |-> Left(1, 1, 0, 0), offered |-> Offered("google", Settings("public", 1)),
   users |-> <<User(Ann, 1)>>, links |-> <<>>, session |-> [b \in Browser |-> NULL],
   admins |-> {}, bodies |-> Only("google", {Profile(1, Ann, 1, TRUE), Denied}),
   suffixes |-> {2}, forms |-> {}, rows |-> {}, offline |-> FALSE]

\* Two flows of a browser and whatever else it does.
Tabs ==
  [Plain EXCEPT !.left = Left(2, 2, 0, 1), !.session = [b \in Browser |-> 1],
     !.users = <<User(Ann, NULL), User(Bob, 2)>>, !.rows = {Banned(User(Ann, NULL)), Banned(User(Bob, 2))},
     !.bodies = Only("google", {Profile(1, NULL, 2, FALSE), Denied}),
     !.offered = [Offered("google", Settings("public", 1)) EXCEPT !["x"] = Settings("public", 1)]]

\* Operators at work on the provider meanwhile.
Gates ==
  [Plain EXCEPT !.left = Left(1, 1, 2, 0), !.admins = {1}, !.offline = TRUE,
     !.session = [b \in Browser |-> 1],
     !.offered = Offered("google", Settings("admins", 1)),
     !.bodies = Only("google", {Profile(1, NULL, NULL, FALSE), Profile(NULL, NULL, NULL, FALSE)}),
     !.forms = {Submitted(NULL, NULL, "disabled"), Submitted(NULL, NULL, "public"), Submitted(2, 2, NULL),
                Submitted(2, NULL, NULL), Submitted(NULL, 2, NULL)}]

\* A provider that is set up from nothing.
Setup ==
  [Plain EXCEPT !.left = Left(0, 0, 3, 0), !.offered = Offered("github", NULL),
     !.forms = {Submitted(i, s, v) : i \in {2, NULL}, s \in {2, NULL}, v \in {"disabled", "public", NULL}}
                 \ {Submitted(NULL, NULL, NULL)}]

\* Registrations that meet each other and namesakes, and every provider.
Names ==
  [Plain EXCEPT !.left = Left(2, 2, 0, 1),
     !.rows = {Banned(User(Ann, 1)), User(Ann, 3), User(<<9, 0, 0>>, 1)},
     !.bodies = Only("google", {Profile(1, Ann, 3, TRUE), Profile(2, ANN, NULL, FALSE),
                                Profile(3, <<9, 0, 0>>, 3, TRUE)})]
EveryProvider ==
  [Plain EXCEPT !.offered = [q \in OAuthProvider |-> Settings("public", 1)],
     !.bodies = [q \in OAuthProvider |->
        {[subject |-> 1, name |-> n, alias |-> a, email |-> e, verified |-> v] :
           n \in {NULL, ANN}, a \in {NULL, Ann}, e \in {1, 3},
           v \in IF q = "facebook" THEN {TRUE} ELSE BOOLEAN}]]

\* Ann's address is taken from her, and may become Bob's, during a sign-in.
Moving ==
  [Plain EXCEPT !.left = Left(1, 1, 0, 2), !.users = <<User(Ann, 1), User(Bob, NULL)>>,
     !.rows = {User(Ann, NULL), User(Ann, 1), User(Bob, 1)},
     !.bodies = Only("google", {Profile(1, NULL, 1, TRUE)})]

\* Nothing at all.
NoFlows == [Plain EXCEPT !.left = Left(0, 0, 0, 0)]

SomeFlowLoads ==
  [none |-> NoFlows, tabs |-> Tabs, gates |-> Gates, setup |-> Setup, names |-> Names, moving |-> Moving,
   providers |-> EveryProvider]
=============================================================================
