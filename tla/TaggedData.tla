----------------------------- MODULE TaggedData ------------------------------
(***************************************************************************)
(* The attribute lists of qcp's messages: a sequence of tags, each with a  *)
(* variant of its own, so that a program may be sent tags that only later  *)
(* programs know (protocol/data_tag.rs, protocol/variant.rs).  On the wire *)
(* a tag is a number; here it is its name, known to the reader or not.     *)
(***************************************************************************)
LOCAL INSTANCE Naturals

-----------------------------------------------------------------------------
(* Variants, of the kinds that this project's messages hold.               *)

Empty       == [is |-> "empty"]
unsigned(n) == [is |-> "unsigned", v |-> n]
Bytes(b)    == [is |-> "bytes", v |-> b]

\* as_unsigned_ref and as_bytes_ref give what is there, never converted.
IsUnsigned(variant) == variant.is = "unsigned"

-----------------------------------------------------------------------------
(* Tags.                                                                   *)

with_variant(t, data) == [tag |-> t, data |-> data]
with_unsigned(t, n) == with_variant(t, unsigned(n))
with_bytes(t, b) == with_variant(t, Bytes(b))
without_data(t) == with_variant(t, Empty)

\* TaggedData::tag, for a reader who knows these tags.
tag(item, known) == IF item.tag \in known THEN item.tag ELSE "none"

\* find_tag: the first one counts.
HasTag(list, t) == \E i \in DOMAIN list : list[i].tag = t

\* What a reader ends up with who takes the items one after the other: the last
\* that he knows and that holds a number.
Unsigneds(list, t, known) ==
  {i \in DOMAIN list : tag(list[i], known) = t /\ IsUnsigned(list[i].data)}
LastUnsigned(list, t, known) ==
  CHOOSE i \in Unsigneds(list, t, known) : \A j \in Unsigneds(list, t, known) : j <= i
HasUnsigned(list, t, known) == Unsigneds(list, t, known) # {}
UnsignedOf(list, t, known) == list[LastUnsigned(list, t, known)].data.v
=============================================================================
