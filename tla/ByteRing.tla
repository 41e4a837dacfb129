------------------------------ MODULE ByteRing ------------------------------
(***************************************************************************)
(* util::ByteRing: the circular buffer that holds host bytes until the     *)
(* link takes them, with its two retention policies.  A ring is a record   *)
(* of its storage and its two indices; one slot stays free.                *)
(***************************************************************************)
EXTENDS Naturals, Sequences, FiniteSetsExt

CONSTANT CAP     \* bytes of storage

ASSUME CapAssumption == CAP \in Nat /\ CAP >= 2

Slots == 0 .. CAP - 1

Rings(Byte) == [buf : [Slots -> Byte], head : Slots, tail : Slots]

Count(r) == (r.head + CAP - r.tail) % CAP

Free(r) == CAP - 1 - Count(r)

Contents(r) == [k \in 1 .. Count(r) |-> r.buf[(r.tail + k - 1) % CAP]]

Drop(r, n) == [r EXCEPT !.tail = (@ + n) % CAP]

(* Write: s goes to the slots from head on, around the end of the storage. *)
Store(r, s) ==
  LET place(i) == ((i + CAP - r.head) % CAP) + 1
  IN [r EXCEPT !.buf = [i \in Slots |-> IF place(i) <= Len(s) THEN s[place(i)]
                                                              ELSE r.buf[i]],
               !.head = (@ + Len(s)) % CAP]

(* An eviction that counts what is queued and forgets what is coming. *)
PushLatest_LateEviction(r, keep, s) ==
  LET limit == Min({keep, CAP - 1})
      over == IF Count(r) > limit THEN Count(r) - limit ELSE 0
  IN [ring |-> Store(Drop(r, over), s), dropped |-> over]

PushLatest(r, keep, s) ==
  LET limit == Min({keep, CAP - 1})
      n == Len(s)
      over == IF Count(r) + n > limit THEN Count(r) + n - limit ELSE 0
  IN IF n >= limit
     THEN [ring |-> Store([r EXCEPT !.tail = r.head], SubSeq(s, n - limit + 1, n)),
           dropped |-> Count(r) + (n - limit)]
     ELSE [ring |-> Store(Drop(r, over), s), dropped |-> over]

(* A keepall push that does not look at the free space. *)
Push_Unchecked(r, policy, s) ==
  CASE s = <<>> -> [ring |-> r, dropped |-> 0]
    [] s # <<>> /\ policy.latest -> PushLatest(r, policy.keep, s)
    [] OTHER -> [ring |-> Store(r, s), dropped |-> 0]

(* Push: the ring afterwards and how many bytes, old or new, were lost. *)
Push(r, policy, s) ==
  LET fits == Min({Len(s), Free(r)})
  IN CASE s = <<>> -> [ring |-> r, dropped |-> 0]
       [] s # <<>> /\ policy.latest -> PushLatest(r, policy.keep, s)
       [] OTHER -> [ring |-> Store(r, SubSeq(s, 1, fits)),
                    dropped |-> Len(s) - fits]
=============================================================================
