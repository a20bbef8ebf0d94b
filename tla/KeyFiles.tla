------------------------------ MODULE KeyFiles ------------------------------
(***************************************************************************)
(* Keygen fills the directories of keys, and a member reads a private and  *)
(* a public key from them, possibly while Keygen is at work or after it    *)
(* died (AsymmetricKey and its CryptoPP implementations).  The id of a key *)
(* is the hash of its public bytes, here the number of the key; the bytes  *)
(* of a key are the key itself, and the library loads nothing else, in     *)
(* particular no part of them.                                             *)
(***************************************************************************)
EXTENDS Integers, Sequences

CONSTANTS
  Runs,        \* the command lines: type of the keys, and seed, <<>> for none
  KeyCount,    \* keys of a run
  MaxKeys,     \* keys that are ever generated
  SeedLength,  \* bytes the generator takes as its seed
  Texts        \* what is signed and encrypted

VARIABLES
  run, count,        \* of the Keygen at work
  key,               \* the key it generated and saves
  pc,                \* "make", "open private", "write private", "open public", "write public" or "over"
  next,              \* the number of the next key
  privdir, pubdir,   \* files: numbers to contents
  faults,            \* writes that fell short
  mine, mine_of,     \* the member's private key, and the file it is from
  peer, peer_of      \* the public key it takes for another's

keygen == <<run, count, key, pc, next, privdir, pubdir, faults>>
member == <<mine, mine_of, peer, peer_of>>
vars == <<keygen, member>>

Numbers == 1..MaxKeys

-----------------------------------------------------------------------------
(* Keys.  A DSA key has parameters, which may come from a seed; an RSA key,  *)
(* and a key that was generated on its own, are alike in nothing.            *)

Key(type, private, params, n) == [type |-> type, private |-> private, params |-> params, n |-> n]
Invalid == [type |-> "invalid"]
IsValid(k) == k # Invalid

\* CryptoRandom fills up short seeds and cuts long ones.
Seeded(seed) == [i \in 1..SeedLength |-> IF i <= Len(seed) THEN seed[i] ELSE 0]
CreateKey(r, n) == Key(r.type, TRUE, IF r.seed = <<>> THEN <<n>> ELSE Seeded(r.seed), n)

GetPublicKey(k) == IF IsValid(k) THEN [k EXCEPT !.private = FALSE] ELSE Invalid
Empty == [type |-> "empty"]
Cut == [type |-> "cut"]   \* a part of a key's bytes
GetByteArray(k) == IF IsValid(k) THEN k ELSE Empty

\* What loads is a key of this type, private or not.
FromFile(type, private, data) == IF data.type = type /\ data.private = private THEN data ELSE Invalid
\* No data stand for no seed: a new key, that nobody else has.
FromData(type, private, data, n) ==
  IF data = Empty THEN Key(type, private, <<n>>, n) ELSE FromFile(type, private, data)

\* The subgroup of the other key is compared with itself; the rest tells keys apart.
Alike(k, l) == IsValid(k) /\ IsValid(l) /\ l.type = k.type /\ l.params = k.params /\ l.n = k.n
VerifyKey(k, l) == Alike(k, l) /\ l.private # k.private
Equals(k, l) == Alike(k, l) /\ l.private = k.private

Nothing == <<>>
Sign(k, text) == IF IsValid(k) /\ k.private THEN <<k.type, k.params, k.n, text>> ELSE Nothing
Verify(k, text, sig) == IsValid(k) /\ sig = <<k.type, k.params, k.n, text>>
Encrypt(k, text) == IF IsValid(k) THEN <<k.n, text>> ELSE Nothing
\* Another key does not find the session key in the padding.
Decrypt(k, box) == IF IsValid(k) /\ k.private /\ box # Nothing /\ box[1] = k.n THEN box[2] ELSE Nothing

-----------------------------------------------------------------------------
(* Keygen *)

NoFile == [type |-> "none"]
None == [type |-> "invalid"]

Init ==
  /\ run \in Runs /\ count = 0 /\ key = None /\ pc = "make" /\ next = 1 /\ faults = 0
  /\ privdir = [i \in Numbers |-> NoFile] /\ pubdir = [i \in Numbers |-> NoFile]
  /\ mine = None /\ mine_of = 0 /\ peer = None /\ peer_of = 0

Make ==
  /\ pc = "make" /\ next \in Numbers
  /\ key' = CreateKey(run, next) /\ next' = next + 1 /\ pc' = "open private"
  /\ UNCHANGED <<run, count, privdir, pubdir, faults, member>>

\* Save: the file is emptied, or cannot be opened, which ends the program.
Open(dir, at, to) ==
  /\ pc = at
  /\ \/ dir' = [dir EXCEPT ![key.n] = Empty] /\ pc' = to
     \/ dir' = dir /\ pc' = "over"
OpenPrivate ==
  /\ Open(privdir, "open private", "write private")
  /\ UNCHANGED <<run, count, key, next, pubdir, faults, member>>
OpenPublic ==
  /\ Open(pubdir, "open public", "write public")
  /\ UNCHANGED <<run, count, key, next, privdir, faults, member>>

\* Save does not look at what write says, and goes on.
Write(dir, k) ==
  \/ dir' = [dir EXCEPT ![k.n] = GetByteArray(k)] /\ UNCHANGED faults
  \/ dir' = [dir EXCEPT ![k.n] = Cut] /\ faults' = faults + 1
WritePrivate ==
  /\ pc = "write private" /\ pc' = "open public"
  /\ Write(privdir, key)
  /\ UNCHANGED <<run, count, key, next, pubdir, member>>
WritePublic ==
  /\ pc = "write public" /\ count' = count + 1
  /\ pc' = IF count + 1 < KeyCount THEN "make" ELSE "over"
  /\ Write(pubdir, GetPublicKey(key))
  /\ UNCHANGED <<run, key, next, privdir, member>>

Die ==
  /\ pc # "over" /\ pc' = "over"
  /\ UNCHANGED <<run, count, key, next, privdir, pubdir, faults, member>>
Rerun ==
  /\ pc = "over" /\ next \in Numbers
  /\ run' \in Runs /\ count' = 0 /\ key' = None /\ pc' = "make"
  /\ UNCHANGED <<next, privdir, pubdir, faults, member>>

-----------------------------------------------------------------------------
(* The member *)

ReadFile(dir, n) == IF dir[n] = NoFile THEN Empty ELSE dir[n]

ReadPrivate(n, type) ==
  /\ mine_of = 0 /\ mine_of' = n
  /\ mine' = FromFile(type, TRUE, ReadFile(privdir, n))
  /\ UNCHANGED <<keygen, peer, peer_of>>
ReadPublic(n, type) ==
  /\ peer_of = 0 /\ peer_of' = n
  /\ peer' = FromFile(type, FALSE, ReadFile(pubdir, n))
  /\ UNCHANGED <<keygen, mine, mine_of>>
\* The key is sent as bytes and made from them elsewhere.
Send(type) ==
  /\ peer_of > 0 /\ peer.type \in {type, Invalid.type}
  /\ peer' = FromData(type, FALSE, GetByteArray(peer), 0)
  /\ UNCHANGED <<keygen, mine, mine_of, peer_of>>

Types == {"rsa", "dsa"}
Next ==
  \/ Make \/ OpenPrivate \/ WritePrivate \/ OpenPublic \/ WritePublic \/ Die \/ Rerun
  \/ \E n \in Numbers, type \in Types : ReadPrivate(n, type) \/ ReadPublic(n, type)
  \/ Send("dsa")
Spec == Init /\ [][Next]_vars

-----------------------------------------------------------------------------
(* Properties *)

Whole(dir, n) == dir[n].type \in Types

\* As long as no write fell short, a public key on the disk has its private key
\* there too, however Keygen ended (Keygen saves the private key first).  The
\* signature of a private key from a file passes with a public key exactly if
\* both are from files of one name, are keys, and say of each other that they
\* are a pair; then what is encrypted comes back.  This also holds of keys read
\* while Keygen was saving them, of files cut short or read as keys of the other
\* type, and of keys that were sent on (Save, ReadFile, VerifyKey, Verify).
KeysComeBack ==
  /\ faults = 0 => \A n \in Numbers : Whole(pubdir, n) => Whole(privdir, n)
  /\ \A text \in Texts :
       LET accepted == Verify(peer, text, Sign(mine, text))
       IN /\ accepted <=> VerifyKey(mine, peer)
          /\ accepted => mine_of = peer_of /\ Decrypt(mine, Encrypt(peer, text)) = text
          /\ accepted => Equals(GetPublicKey(mine), peer) /\ Whole(privdir, mine_of)
          /\ IsValid(mine) /\ IsValid(peer) /\ mine_of = peer_of /\ mine.type = peer.type =>
               (accepted <=> peer.n = peer_of)

=============================================================================
