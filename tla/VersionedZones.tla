---------------------------- MODULE VersionedZones ----------------------------
(***************************************************************************)
(* What the export promises its agents: each zone is a document with a     *)
(* version that moves on with every write, an agent has a copy of each     *)
(* with the version it is labelled with, and a poll is one step, a fetch.  *)
(* A fetch never goes back to an older version, and a copy labelled with   *)
(* the current version is the current one; what the copy of an older       *)
(* version holds is left open.  The exception is a zone that was emptied   *)
(* without a new version (an apply): copies from before are stale.         *)
(***************************************************************************)
EXTENDS Integers

CONSTANTS
  Zones, Agents,
  Shown      \* the records that agents may see

VARIABLES
  zones,     \* the zones there are
  version,   \* version[z] is 0 until z is created
  content,   \* content[z]: the records of z that agents may see
  label,     \* label[a][z]: the version of a's copy of z, 0 without one
  copy,      \* copy[a][z]: a's copy of z
  stale      \* stale[a]: the zones that may have been emptied since a's fetch

vars == <<zones, version, content, label, copy, stale>>

Init ==
  /\ zones = {}
  /\ version = [z \in Zones |-> 0]
  /\ content = [z \in Zones |-> {}]
  /\ label = [a \in Agents |-> [z \in Zones |-> 0]]
  /\ copy = [a \in Agents |-> [z \in Zones |-> {}]]
  /\ stale = [a \in Agents |-> {}]

Create(z) ==
  /\ z \notin zones /\ version[z] = 0
  /\ zones' = zones \cup {z}
  /\ version' = [version EXCEPT ![z] = 1]
  /\ UNCHANGED <<content, label, copy, stale>>

\* The zones of an account go together.
Drop(gone) ==
  /\ zones' = zones \ gone
  /\ content' = [z \in Zones |-> IF z \in gone THEN {} ELSE content[z]]
  /\ UNCHANGED <<version, label, copy, stale>>

\* A write moves the version on, whether or not what z says changes.
Write(z) ==
  /\ z \in zones
  /\ version' = [version EXCEPT ![z] = @ + 1]
  /\ \E c \in SUBSET Shown : content' = [content EXCEPT ![z] = c]
  /\ UNCHANGED <<zones, label, copy, stale>>

\* An apply empties z and leaves its version.
Clear(z) ==
  /\ z \in zones
  /\ content' = [content EXCEPT ![z] = {}]
  /\ stale' = [a \in Agents |-> stale[a] \cup {z}]
  /\ UNCHANGED <<zones, version, label, copy>>

Fetch(a) ==
  /\ label' \in [Agents -> [Zones -> Nat]] /\ copy' \in [Agents -> [Zones -> SUBSET Shown]]
  /\ stale' \in [Agents -> SUBSET Zones]
  /\ \A z \in Zones : label'[a][z] <= version[z]
  /\ \A z \in zones : label[a][z] <= label'[a][z]
  /\ \A z \in zones \ stale'[a] : label'[a][z] = version[z] => copy'[a][z] = content[z]
  /\ stale'[a] \subseteq stale[a]
  /\ \A b \in Agents \ {a} : label'[b] = label[b] /\ copy'[b] = copy[b] /\ stale'[b] = stale[b]
  /\ UNCHANGED <<zones, version, content>>

Next ==
  \/ \E z \in Zones : Create(z) \/ Write(z) \/ Clear(z)
  \/ \E gone \in SUBSET zones : Drop(gone)
  \/ \E a \in Agents : Fetch(a)

Spec == Init /\ [][Next]_vars
=============================================================================
