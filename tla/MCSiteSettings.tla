--------------------------- MODULE MCSiteSettings ---------------------------
(***************************************************************************)
(* Instances of SiteSettings: the forms that operators submit.             *)
(***************************************************************************)
EXTENDS SiteSettings

Untouched == [c \in Column |-> "absent"]

\* A form that gives every column but the two that cannot be empty one value.
AllOptional(raw) ==
  [c \in Column |-> IF c \in {"site_name", "body_template"} THEN "absent" ELSE raw]

\* What an operator can do to the optional columns, to all of them together,
\* and everything that can be wrong with one of the other two.
MCForms ==
  {AllOptional(raw) : raw \in {"null", "", "  ", "two"}}
    \cup {[Untouched EXCEPT ![c] = raw] : c \in {"site_name", "body_template"},
                                         raw \in {"null", "", "  ", "long", "buried", "one"}}

\* What the caches depend on is only whether the row was written.
MCRename == {[Untouched EXCEPT !["site_name"] = "two"]}

\* Two requests at a time over writes and a deployment; any three forms in a
\* row, without an audience.
MCLoads ==
  {[requests |-> {1, 2}, forms |-> MCRename, edits |-> 2, deploys |-> 1],
   [requests |-> {}, forms |-> MCForms, edits |-> 3, deploys |-> 0]}
=============================================================================
