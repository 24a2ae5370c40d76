---------------------------- MODULE SchemaContract ----------------------------
(***************************************************************************)
(* What the rest of the system may assume of the schema: it moves up one   *)
(* version at a time and never back, a version says exactly what has been  *)
(* built, and a server takes requests at the last version only.            *)
(***************************************************************************)
EXTENDS Integers

CONSTANTS
  First, Final,  \* the first version and the one that servers expect
  Built          \* what is there at each version

VARIABLES
  version,  \* the version of the schema; 0 before the first
  objects,  \* what is there
  serving   \* the servers that take requests

vars == <<version, objects, serving>>

Versions == {0} \cup First..Final

Init ==
  /\ version \in Versions
  /\ objects = Built[version]
  /\ serving = {}

Migrate ==
  /\ version < Final
  /\ version' = IF version = 0 THEN First ELSE version + 1
  /\ objects' = Built[version']
  /\ UNCHANGED serving

\* One more server takes requests.
Serve ==
  /\ version = Final
  /\ \E s \in serving' : serving' = serving \cup {s}
  /\ UNCHANGED <<version, objects>>

Leave ==
  /\ serving' \subseteq serving
  /\ UNCHANGED <<version, objects>>

Next == Migrate \/ Serve \/ Leave

Spec == Init /\ [][Next]_vars
============================================================================
