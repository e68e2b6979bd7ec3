------------------------------- MODULE NPacket ------------------------------
(***************************************************************************)
(* common/Packet.cpp: values written one after the other into a packet and *)
(* read back.  A packet is its bytes up to m_size and m_read_idx.  The     *)
(* 16-bit length of a string or an array is one cell of LenMod values, as  *)
(* any byte is; a value of a type T is a sequence of cells.                *)
(***************************************************************************)
EXTENDS Integers, Sequences

CONSTANTS MaxPacketSize,
          LenMod,        \* 2^16
          SizeofSizeT    \* sizeof(size_t), in lengths of 16 bits

ASSUME PacketAssumption == /\ MaxPacketSize \in Nat /\ LenMod \in Nat \ {0}
                           /\ SizeofSizeT \in Nat \ {0}

SizeofLen == 1

NewPacket == [buf |-> <<>>, m_read_idx |-> 0]

write_size(p) == MaxPacketSize - Len(p.buf)
read_size(p) == Len(p.buf) - p.m_read_idx

reset_read(p) == NewPacket

\* Slip: no room is asked for.
putTUnchecked(p, v) == [ok |-> TRUE, p |-> [p EXCEPT !.buf = @ \o v]]

\* put of a T, a string and an array: whether it fits, and the packet after.
putT(p, v) == IF write_size(p) < Len(v) THEN [ok |-> FALSE, p |-> p]
              ELSE [ok |-> TRUE, p |-> [p EXCEPT !.buf = @ \o v]]

\* The length c_str has: the cells before the first NUL.
strlen(s) == CHOOSE n \in 0..Len(s) :
               (\A i \in 1..n : s[i] # 0) /\ (n = Len(s) \/ s[n + 1] = 0)

\* Slip: the string is copied whole, as putArray does it.
putStringWhole(p, s) ==
  IF write_size(p) < SizeofLen + Len(s) THEN [ok |-> FALSE, p |-> p]
  ELSE [ok |-> TRUE, p |-> [p EXCEPT !.buf = @ \o <<Len(s) % LenMod>> \o s]]

\* A string goes through c_str: its length is that up to the first NUL, cut to
\* 16 bits, and that much of it is copied.
putString(p, s) ==
  LET len == strlen(s) % LenMod
  IN  IF write_size(p) < SizeofLen + len THEN [ok |-> FALSE, p |-> p]
      ELSE [ok |-> TRUE, p |-> [p EXCEPT !.buf = @ \o <<len>> \o SubSeq(s, 1, len)]]

\* Room is asked for a size_t; 16 bits of the length are written, and all bytes.
putArray(p, a) ==
  IF write_size(p) < SizeofSizeT + Len(a) THEN [ok |-> FALSE, p |-> p]
  ELSE [ok |-> TRUE, p |-> [p EXCEPT !.buf = @ \o <<Len(a) % LenMod>> \o a]]

\* get of a T of n cells.
getT(p, n) ==
  IF read_size(p) < n THEN [ok |-> FALSE, p |-> p, v |-> <<>>]
  ELSE [ok |-> TRUE, p |-> [p EXCEPT !.m_read_idx = @ + n],
        v |-> SubSeq(p.buf, p.m_read_idx + 1, p.m_read_idx + n)]

\* A string that is not all there gives its length back.
getString(p) ==
  LET slen == getT(p, SizeofLen)
  IN  IF ~slen.ok \/ read_size(slen.p) < slen.v[1]
      THEN [ok |-> FALSE, p |-> p, v |-> <<>>]
      ELSE getT(slen.p, slen.v[1])

\* So does an array for which the caller has not room enough.
getArray(p, len) ==
  LET r == getString(p)
  IN  IF r.ok /\ Len(r.v) > len THEN [ok |-> FALSE, p |-> p, v |-> <<>>] ELSE r

-----------------------------------------------------------------------------
\* put and get by the kind of a field.
Field == [kind : {"T", "string", "array"}, v : Seq(Nat)]

Put(p, f) == CASE f.kind = "T"      -> putT(p, f.v)
               [] f.kind = "string" -> putString(p, f.v)
               [] f.kind = "array"  -> putArray(p, f.v)

Get(p, f) == CASE f.kind = "T"      -> getT(p, Len(f.v))
               [] f.kind = "string" -> getString(p)
               [] f.kind = "array"  -> getArray(p, Len(f.v))

\* A packet after each of the fields is put into a new one, and whether all of
\* them found room so far.
Encoding(fields) ==
  LET after[n \in 0..Len(fields)] ==
        IF n = 0 THEN [p |-> NewPacket, whole |-> TRUE]
        ELSE LET r == Put(after[n - 1].p, fields[n])
             IN  [p |-> r.p, whole |-> after[n - 1].whole /\ r.ok]
  IN  after

\* What each get of a reader gives who knows the kinds of the fields.
Decoding(p, fields) ==
  LET after[n \in 0..Len(fields)] ==
        IF n = 0 THEN [ok |-> TRUE, p |-> p, v |-> <<>>]
        ELSE Get(after[n - 1].p, fields[n])
  IN  after

=============================================================================
