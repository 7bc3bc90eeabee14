---------------------------- MODULE RecordMapping ----------------------------
(***************************************************************************)
(* What becomes of a record on its way to a provider and back              *)
(* (provider_cloudflare.go, provider_namecom.go): names relative to the    *)
(* zone or full, numbers of 32 bits, fields that the provider lacks or     *)
(* leaves out when they are zero.  Names are sequences of labels; types    *)
(* are in the form in which providers list them.                           *)
(***************************************************************************)
EXTENDS Integers, Sequences

CONSTANTS
  Provider,     \* "cloudflare" or "namecom"
  Labels,       \* the labels of names
  At,           \* the label by which one may call the zone itself
  ZoneName,     \* the name of the zone
  Word,         \* as many numbers as a uint32 has
  Nil,          \* no priority
  DefaultTTL,   \* Name.com's TTL for a record sent without one
  ApplyTTL      \* the TTL of a desired record without one

ASSUME ProviderKind == Provider \in {"cloudflare", "namecom"}
ASSUME NameAssumption == ZoneName \in Seq(Labels) /\ ZoneName # <<>>
ASSUME NumberAssumption ==
  Word \in Nat \ {0, 1} /\ DefaultTTL \in 1..(Word - 1) /\ ApplyTTL \in Nat \ {0} /\ Nil \notin Int

Hosts == Seq(Labels)
Fields == [ttl : Int, priority : Int \cup {Nil}, proxied : BOOLEAN]
-----------------------------------------------------------------------------
\* Names.

NormalizeHost(h) == IF h = <<At>> THEN <<>> ELSE h

\* Full name of a host, and back.
CfToFull(h) == NormalizeHost(h) \o ZoneName
InZone(f) ==
  /\ Len(f) > Len(ZoneName)
  /\ SubSeq(f, Len(f) - Len(ZoneName) + 1, Len(f)) = ZoneName
CfToRelative(f) ==
  IF f = ZoneName \/ f = <<>> THEN <<>>
  ELSE IF InZone(f) THEN SubSeq(f, 1, Len(f) - Len(ZoneName))
  ELSE f
-----------------------------------------------------------------------------
\* Cloudflare: TTL 1 stands for automatic.

ToCloudflare(d) ==
  [name |-> CfToFull(d.group.name), type |-> d.group.type, content |-> d.content,
   ttl |-> IF d.attr.ttl <= 0 THEN 1 ELSE d.attr.ttl,
   priority |-> d.attr.priority, proxied |-> d.attr.proxied]
FromCloudflare(w) ==
  [group |-> [name |-> CfToRelative(w.name), type |-> w.type], content |-> w.content,
   attr |-> [ttl |-> w.ttl, priority |-> w.priority, proxied |-> w.proxied]]
-----------------------------------------------------------------------------
\* Name.com: unsigned numbers, no priority if zero, nothing proxied.

Uint32(n) == n % Word
ToNamecom(d) ==
  [host |-> NormalizeHost(d.group.name), type |-> d.group.type, answer |-> d.content,
   ttl |-> Uint32(d.attr.ttl),
   priority |-> IF d.attr.priority = Nil THEN 0 ELSE Uint32(d.attr.priority)]
FromNamecomNoPriority(w) ==
  [group |-> [name |-> w.host, type |-> w.type], content |-> w.answer,
   attr |-> [ttl |-> w.ttl, priority |-> Nil, proxied |-> FALSE]]
FromNamecom(w) ==
  [group |-> [name |-> w.host, type |-> w.type], content |-> w.answer,
   attr |-> [ttl |-> w.ttl, priority |-> IF w.priority = 0 THEN Nil ELSE w.priority,
             proxied |-> FALSE]]

\* A TTL of zero is left out of the request.
NamecomStores(w) == [w EXCEPT !.ttl = IF @ = 0 THEN DefaultTTL ELSE @]
-----------------------------------------------------------------------------
\* How a record reads in the listing once it has been written.
ListedAs(d) ==
  IF Provider = "cloudflare" THEN FromCloudflare(ToCloudflare(d))
  ELSE FromNamecom(NamecomStores(ToNamecom(d)))

\* A desired record as apply takes it from a request, and what it turns away.
ToRecord(d) ==
  [d EXCEPT !.group.name = NormalizeHost(@),
            !.attr.ttl = IF @ <= 0 THEN ApplyTTL ELSE @]
Allowed(d) == d.attr.proxied => Provider = "cloudflare"

\* What the provider can say: Name.com has no priority 0 and numbers of 32 bits.
Representable(d) ==
  Provider = "namecom" =>
    d.attr.ttl \in 1..(Word - 1) /\ d.attr.priority \in {Nil} \cup 1..(Word - 1)
=============================================================================
