---------------------------- MODULE Identities ----------------------------
(***************************************************************************)
(* PublicIdentity on the wire, its order, and Roster.  A stream is a       *)
(* sequence of bytes: a number takes four, a flag one, a byte array its    *)
(* length and its bytes, or 0xff four times if it is null.                 *)
(***************************************************************************)
EXTENDS BigInteger, FiniteSets

CONSTANTS
  Ids,        \* numbers
  KeyBytes,   \* those of keys; a null array, of an invalid key, is Null
  DhBytes,
  MaxRoster   \* identities of a roster

VARIABLES ident, stream, back, roster, phase
vars == <<ident, stream, back, roster, phase>>

Null == <<-1>>   \* a null byte array, and no key
RSA == 0
DSA == 1
LRS == 2
Key(type, private, bytes) == [type |-> type, private |-> private, bytes |-> bytes]
KeySet ==
  {Key(t, p, b) : t \in {RSA, DSA, LRS}, p \in BOOLEAN, b \in KeyBytes} \cup {Key(LRS, FALSE, Null)}
NoKey == Key(-1, FALSE, Null)
Random == <<-2>>  \* the bytes of a key that was just generated
Identity(id, key, dh) == [id |-> id, key |-> key, dh |-> dh]

-----------------------------------------------------------------------------
(* Streams *)

Word(n) == IF n < 0 THEN <<FF, FF, FF, FF>> ELSE <<0, 0, 0, n>>
Flag(b) == <<IF b THEN 1 ELSE 0>>
Array(s) == IF s = Null THEN Word(-1) ELSE Word(Len(s)) \o s

\* The key writes its type, whether it is private, and its bytes.
WriteKey(k) == Word(k.type) \o Flag(k.private) \o Array(k.bytes)
Write(i) == Array(ToBytes(i.id)) \o (IF i.key = NoKey THEN Array(Null) ELSE WriteKey(i.key)) \o Array(i.dh)

BytesOf(s) == IF s = Null THEN <<>> ELSE s

\* A read takes what it needs off the stream, nothing where that is missing.
Rest(s, n) == SubSeq(s, n + 1, Len(s))
ReadInt(s) == IF Len(s) < 4 THEN 0 ELSE IF s[1] = FF THEN -1 ELSE FromBytes(SubSeq(s, 1, 4))
ReadArray(s) ==
  LET n == ReadInt(s)
  IN IF Len(s) < 4 \/ n = -1 THEN [v |-> Null, rest |-> Rest(s, 4)]
     ELSE IF Len(s) < 4 + n THEN [v |-> Null, rest |-> <<>>]
     ELSE [v |-> SubSeq(s, 5, 4 + n), rest |-> Rest(s, 4 + n)]

\* The constructors take no bytes for a seed: a new key.  Other types give none.
ReadKey(s) ==
  LET type == ReadInt(s)
      private == Len(s) > 4 /\ s[5] # 0
      bytes == ReadArray(Rest(s, 5))
  IN [v |-> IF type \in {RSA, DSA}
            THEN Key(type, private, IF bytes.v \in {Null, <<>>} THEN Random ELSE bytes.v)
            ELSE NoKey,
      rest |-> bytes.rest]
Read(s) ==
  LET id == ReadArray(s)
      key == ReadKey(id.rest)
      dh == ReadArray(key.rest)
  IN Identity(FromBytes(BytesOf(id.v)), key.v, dh.v)

-----------------------------------------------------------------------------
(* Order and roster *)

Less(s, t) ==   \* of byte arrays
  \/ IsStrictPrefix(s, t)
  \/ \E i \in DOMAIN s \cap DOMAIN t : s[i] < t[i] /\ SubSeq(s, 1, i - 1) = SubSeq(t, 1, i - 1)
IdentityLess(a, b) ==
  LET ka == BytesOf(a.key.bytes)
      kb == BytesOf(b.key.bytes)
  IN \/ a.id < b.id
     \/ a.id = b.id /\ (Less(ka, kb) \/ (ka = kb /\ Less(BytesOf(a.dh), BytesOf(b.dh))))

\* The constructor keeps the last index of an id.
GetIndex(r, id) ==
  IF \E i \in DOMAIN r : r[i].id = id
  THEN CHOOSE i \in DOMAIN r : r[i].id = id /\ \A j \in DOMAIN r : r[j].id = id => j <= i
  ELSE -1
GetId(r, i) == r[i].id
GetIdentity(r, id) == IF GetIndex(r, id) = -1 THEN Identity(0, NoKey, Null) ELSE r[GetIndex(r, id)]

-----------------------------------------------------------------------------
(* Identities are sent, and a roster is made of those that arrive, in order *)

Init ==
  /\ ident \in {Identity(i, k, d) : i \in Ids, k \in KeySet \cup {NoKey}, d \in DhBytes}
  /\ stream = <<>> /\ back = <<>> /\ roster = <<>> /\ phase = "local"
Send ==
  /\ phase = "local" /\ phase' = "sent" /\ stream' = Write(ident)
  /\ UNCHANGED <<ident, back, roster>>
Receive ==
  /\ phase = "sent" /\ phase' = "received" /\ back' = Read(stream)
  /\ UNCHANGED <<ident, stream, roster>>
Enlist ==
  /\ phase = "received" /\ Len(roster) < MaxRoster
  /\ \A i \in DOMAIN roster : roster[i].id # back.id
  /\ roster' = SelectSeq(roster, LAMBDA m : IdentityLess(m, back)) \o <<back>> \o
               SelectSeq(roster, LAMBDA m : ~IdentityLess(m, back))
  /\ phase' = "local" /\ stream' = <<>> /\ back' = <<>>
  /\ ident' \in {Identity(i, k, d) : i \in Ids, k \in {Key(DSA, FALSE, b) : b \in KeyBytes}, d \in DhBytes}
Next == Send \/ Receive \/ Enlist
Spec == Init /\ [][Next]_vars

-----------------------------------------------------------------------------
(* Properties *)

\* An identity with a key that can be read comes back; the id always does.
IdentityComesBack == phase = "received" =>
  /\ back.id = ident.id
  /\ ident.key.type \in {RSA, DSA} => back = ident

\* A roster of different ids finds each member at its place, in the order of <,
\* the same whatever the order in which they came.
RosterInOrder ==
  /\ \A i \in DOMAIN roster : GetIndex(roster, GetId(roster, i)) = i
                              /\ GetIdentity(roster, roster[i].id) = roster[i]
  /\ \A i, j \in DOMAIN roster : i < j <=> IdentityLess(roster[i], roster[j])

=============================================================================
