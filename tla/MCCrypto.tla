---------------------------- MODULE MCCrypto ----------------------------
(*****************************************************************************)
(* The groups with small primes and bytes of four values, the ciphertexts    *)
(* and proofs of BlogDrop in a group of five elements, and its bins; the     *)
(* keys, the shuffle and its proof, ring signatures, onions, and how         *)
(* identities, keys, numbers and bits are written.                           *)
(*****************************************************************************)
EXTENDS Integers, Sequences, TLC

VARIABLES
  part,   \* the instance that is checked
  in, num, size, str, point, blind, step, ser, cover, xs, auth, ms, msg, oracle, ok,
  _phase, _client_ciphertexts, _client_pubs, _server_ciphertexts, _client_pks, shares,
  reported, data, keys, box, out, phase, stmt, texts, server, stage, input, sec, prf,
  chal, forged, ring, context, my_idx, u, commits, signatures, at, tags, invalid,
  intermediate, level, cipher, clear, bad, swaps, onion, replaced, verdict, file,
  fs_enabled, _keys, _sorted_keys, added, found, ident, stream, back, roster, kind,
  value, offset, run, count, key, pc, next, privdir, pubdir, faults, mine, mine_of,
  peer, peer_of

vars ==
  <<part, in, num, size, str, point, blind, step, ser, cover, xs, auth, ms, msg, oracle, ok,
    _phase, _client_ciphertexts, _client_pubs, _server_ciphertexts, _client_pks, shares,
    reported, data, keys, box, out, phase, stmt, texts, server, stage, input, sec, prf,
    chal, forged, ring, context, my_idx, u, commits, signatures, at, tags, invalid,
    intermediate, level, cipher, clear, bad, swaps, onion, replaced, verdict, file,
    fs_enabled, _keys, _sorted_keys, added, found, ident, stream, back, roster, kind,
    value, offset, run, count, key, pc, next, privdir, pubdir, faults, mine, mine_of,
    peer, peer_of>>

\* Some numbers for the digests of elements, also beyond the order of the group.
Digests == [a \in 1..10 |-> (5 * a + 3) % 13]

\* Vectors with the indices of the code, strings of up to two bytes, and the
\* bytes of numbers, some of which look framed.
Two(a, b) == (0 :> a) @@ (1 :> b)
ShortStrings == UNION {[1..n -> 0..3] : n \in 0..2}
RawStrings == {<<a>> : a \in 1..3} \cup {<<a, b>> : a \in 1..3, b \in 0..3} \cup
  {<<a, b, c>> : a \in 1..3, b \in 0..3, c \in 0..3}

\* Numbers and byte arrays at the edges of a byte, of a word and of base64, and
\* bit arrays around one, two and three bytes.
SomeNumbers == {0, 1, 255, 256, 65536, 287454020, 2147483647, -1, -256, -257, -2147483647 - 1}
SomeBytes == {0, 1, 63, 64, 128, 255}
SomeTexts == UNION {[1..n -> SomeBytes] : n \in 0..3} \cup
  {<<a, 255, 0, b>> : a, b \in SomeBytes} \cup {<<a, 7, 0, 9, b>> : a, b \in SomeBytes}
SomeBits == UNION {[1..n -> {0, 1}] : n \in 1..9} \cup
  {[i \in 1..n |-> IF i % k = 0 THEN 1 ELSE 0] : n \in {15, 16, 17, 24}, k \in {1, 2, 3, 5, 16, 25}}

\* Keygen with either type, and with seeds that are the same to the generator.
CommandLines == {[type |-> "rsa", seed |-> <<>>], [type |-> "dsa", seed |-> <<>>],
  [type |-> "dsa", seed |-> <<7>>], [type |-> "dsa", seed |-> <<7, 0, 5>>]}

Group == INSTANCE IntegerGroup WITH
  P <- 227, G <- 4, Byte <- 4
Bytes == INSTANCE IntegerGroup WITH
  P <- 2063, G <- 4, Byte <- 4

\* A caller of an AbstractGroup: it encodes a string, takes a received number
\* for an element, or asks for a group of a fixed size.
GroupInit == in = <<>> /\ num = 1 /\ size = 256
GroupCall(encoded, decoded) ==   \* the codes of all strings, the strings of all elements
  /\ num = 1
  /\ \/ size = 256 /\ \E s \in DOMAIN encoded : in' = s /\ num' = encoded[s] /\ UNCHANGED size
     \/ size = 256 /\ \E a \in DOMAIN decoded : num' = a /\ in' = decoded[a].out /\ UNCHANGED size
     \/ \E s \in Group!Sizes : size' = Group!GetGroup(s) /\ UNCHANGED <<in, num>>

Curve == INSTANCE CppECGroup WITH
  FieldSize <- 4093, CurveA <- 4090, CurveB <- 7, Byte <- 4, MaxLen <- 3,
  Blinds <- {2, 3, 5, 6, 8, 9, 11, 500}
ElGamal == INSTANCE BlogDrop WITH
  P <- 11, G <- 4, Byte <- 4, ProofType <- "ElGamal", NElements <- 2,
  Generator <- <<5, 9>>, EmptyHash <- 3, Digest <- Digests, Keys <- {1, 3},
  Rand <- {2, 4}, Messages <- {1, 5}
Hashing == INSTANCE BlogDrop WITH
  P <- 11, G <- 4, Byte <- 4, ProofType <- "HashingGenerator", NElements <- 2,
  Generator <- <<5, 9>>, EmptyHash <- 3, Digest <- Digests, Keys <- {1, 3, 5},
  Rand <- {1, 2, 5}, Messages <- {1, 9}
Bin == INSTANCE BlogDropServer WITH
  ProofType <- "ElGamal", Servers <- {1, 2}, Clients <- {1, 2}, MaxBin <- 2,
  MaxPhase <- 0
Phases == INSTANCE BlogDropServer WITH
  ProofType <- "HashingGenerator", Servers <- {1}, Clients <- {1, 2}, MaxBin <- 2,
  MaxPhase <- 1
Raw == INSTANCE KeyCaller WITH
  Byte <- 4, Modulus <- 67, Subgroup <- 11, Generator <- 9, Strings <- RawStrings,
  Keys <- {3, 10}, Rand <- {2, 7}, Hashes <- {2, 5, 11, 20}, MaxKeys <- 2
Padded == INSTANCE KeyCaller WITH
  Byte <- 4, Modulus <- 2039, Subgroup <- 1019, Generator <- 4, Strings <- ShortStrings,
  Keys <- {3, 10, 500}, Rand <- {2, 7, 1019}, Hashes <- {2, 5, 900}, MaxKeys <- 2
Shuffle == INSTANCE NeffShuffle WITH
  Byte <- 4, Modulus <- 53, Subgroup <- 13, Generator <- 16, K <- 2, Privates <- <<5>>,
  Texts <- {15, 49}, Vectors <- {Two(2, 5), Two(7, 4)}, Scalars <- {9},
  Thetas <- {Two(1, 12) @@ (2 :> 0)}, Challenges <- {3, 13}, Factors <- {1, 44}
Shuffles == INSTANCE NeffShuffle WITH
  Byte <- 4, Modulus <- 53, Subgroup <- 13, Generator <- 16, K <- 3,
  Privates <- <<5, 7, 4>>, Texts <- {15, 49}, Vectors <- {Two(3, 11) @@ (2 :> 6)},
  Scalars <- {9}, Thetas <- {Two(1, 12) @@ (2 :> 0) @@ (3 :> 8) @@ (4 :> 5)},
  Challenges <- {3, 7}, Factors <- {1}
Ring == INSTANCE RingSignature WITH
  Byte <- 4, Modulus <- 53, Subgroup <- 13, Generator <- 16, Members <- {3, 10, 5},
  MaxRing <- 3, Contexts <- {26, 31}, Messages <- {1, 2}, Rand <- {2, 7},
  Hashes <- {2, 20}
Onions == INSTANCE Onion WITH
  Keys <- <<"a", "b">>, Clients <- 3, Texts <- {<<>>, <<"m">>, <<"n">>}
Names == INSTANCE KeyShare WITH
  Names <- {1, 2, 3}, MaxAdd <- 2
Wire == INSTANCE Identities WITH
  Byte <- 256, Ids <- {0, 1, 258}, KeyBytes <- {<<1>>, <<1, 7>>},
  DhBytes <- {<<-1>>, <<1>>}, MaxRoster <- 3
Utils == INSTANCE Encodings WITH
  Byte <- 256, Numbers <- SomeNumbers, Bits <- SomeBits, Texts <- SomeTexts,
  Ids <- {0, 1, 3, 63, 64, 255, 256, 65535, 65536, 16777215}, Triples <- [1..3 -> 0..2]
Files == INSTANCE KeyFiles WITH
  Runs <- CommandLines, KeyCount <- 2, MaxKeys <- 2, SeedLength <- 2, Texts <- {<<"m">>}

Init ==
  \/ part = "group" /\ GroupInit
     /\ str = 0 /\ point = 0 /\ blind = 0 /\ step = 0 /\ ser = 0 /\ cover = 0 /\ xs = 0 /\
     auth = 0 /\ ms = 0 /\ msg = 0 /\ oracle = 0 /\ ok = 0 /\ _phase = 0 /\
     _client_ciphertexts = 0 /\ _client_pubs = 0 /\ _server_ciphertexts = 0 /\
     _client_pks = 0 /\ shares = 0 /\ reported = 0 /\ data = 0 /\ keys = 0 /\ box =
     0 /\ out = 0 /\ phase = 0 /\ stmt = 0 /\ texts = 0 /\ server = 0 /\ stage = 0
     /\ input = 0 /\ sec = 0 /\ prf = 0 /\ chal = 0 /\ forged = 0 /\ ring = 0 /\
     context = 0 /\ my_idx = 0 /\ u = 0 /\ commits = 0 /\ signatures = 0 /\ at = 0
     /\ tags = 0 /\ invalid = 0 /\ intermediate = 0 /\ level = 0 /\ cipher = 0 /\
     clear = 0 /\ bad = 0 /\ swaps = 0 /\ onion = 0 /\ replaced = 0 /\ verdict = 0
     /\ file = 0 /\ fs_enabled = 0 /\ _keys = 0 /\ _sorted_keys = 0 /\ added = 0 /\
     found = 0 /\ ident = 0 /\ stream = 0 /\ back = 0 /\ roster = 0 /\ kind = 0 /\
     value = 0 /\ offset = 0 /\ run = 0 /\ count = 0 /\ key = 0 /\ pc = 0 /\ next =
     0 /\ privdir = 0 /\ pubdir = 0 /\ faults = 0 /\ mine = 0 /\ mine_of = 0 /\ peer
     = 0 /\ peer_of = 0
  \/ part = "bytes" /\ GroupInit
     /\ str = 0 /\ point = 0 /\ blind = 0 /\ step = 0 /\ ser = 0 /\ cover = 0 /\ xs = 0 /\
     auth = 0 /\ ms = 0 /\ msg = 0 /\ oracle = 0 /\ ok = 0 /\ _phase = 0 /\
     _client_ciphertexts = 0 /\ _client_pubs = 0 /\ _server_ciphertexts = 0 /\
     _client_pks = 0 /\ shares = 0 /\ reported = 0 /\ data = 0 /\ keys = 0 /\ box =
     0 /\ out = 0 /\ phase = 0 /\ stmt = 0 /\ texts = 0 /\ server = 0 /\ stage = 0
     /\ input = 0 /\ sec = 0 /\ prf = 0 /\ chal = 0 /\ forged = 0 /\ ring = 0 /\
     context = 0 /\ my_idx = 0 /\ u = 0 /\ commits = 0 /\ signatures = 0 /\ at = 0
     /\ tags = 0 /\ invalid = 0 /\ intermediate = 0 /\ level = 0 /\ cipher = 0 /\
     clear = 0 /\ bad = 0 /\ swaps = 0 /\ onion = 0 /\ replaced = 0 /\ verdict = 0
     /\ file = 0 /\ fs_enabled = 0 /\ _keys = 0 /\ _sorted_keys = 0 /\ added = 0 /\
     found = 0 /\ ident = 0 /\ stream = 0 /\ back = 0 /\ roster = 0 /\ kind = 0 /\
     value = 0 /\ offset = 0 /\ run = 0 /\ count = 0 /\ key = 0 /\ pc = 0 /\ next =
     0 /\ privdir = 0 /\ pubdir = 0 /\ faults = 0 /\ mine = 0 /\ mine_of = 0 /\ peer
     = 0 /\ peer_of = 0
  \/ part = "curve" /\ Curve!Init
     /\ in = 0 /\ num = 0 /\ size = 0 /\ step = 0 /\ ser = 0 /\ cover = 0 /\ xs = 0 /\ auth
     = 0 /\ ms = 0 /\ msg = 0 /\ oracle = 0 /\ ok = 0 /\ _phase = 0 /\
     _client_ciphertexts = 0 /\ _client_pubs = 0 /\ _server_ciphertexts = 0 /\
     _client_pks = 0 /\ shares = 0 /\ reported = 0 /\ data = 0 /\ keys = 0 /\ box =
     0 /\ out = 0 /\ phase = 0 /\ stmt = 0 /\ texts = 0 /\ server = 0 /\ stage = 0
     /\ input = 0 /\ sec = 0 /\ prf = 0 /\ chal = 0 /\ forged = 0 /\ ring = 0 /\
     context = 0 /\ my_idx = 0 /\ u = 0 /\ commits = 0 /\ signatures = 0 /\ at = 0
     /\ tags = 0 /\ invalid = 0 /\ intermediate = 0 /\ level = 0 /\ cipher = 0 /\
     clear = 0 /\ bad = 0 /\ swaps = 0 /\ onion = 0 /\ replaced = 0 /\ verdict = 0
     /\ file = 0 /\ fs_enabled = 0 /\ _keys = 0 /\ _sorted_keys = 0 /\ added = 0 /\
     found = 0 /\ ident = 0 /\ stream = 0 /\ back = 0 /\ roster = 0 /\ kind = 0 /\
     value = 0 /\ offset = 0 /\ run = 0 /\ count = 0 /\ key = 0 /\ pc = 0 /\ next =
     0 /\ privdir = 0 /\ pubdir = 0 /\ faults = 0 /\ mine = 0 /\ mine_of = 0 /\ peer
     = 0 /\ peer_of = 0
  \/ part = "elgamal" /\ ElGamal!Init
     /\ in = 0 /\ num = 0 /\ size = 0 /\ str = 0 /\ point = 0 /\ blind = 0 /\ _phase = 0 /\
     _client_ciphertexts = 0 /\ _client_pubs = 0 /\ _server_ciphertexts = 0 /\
     _client_pks = 0 /\ shares = 0 /\ reported = 0 /\ data = 0 /\ keys = 0 /\ box =
     0 /\ out = 0 /\ phase = 0 /\ stmt = 0 /\ texts = 0 /\ server = 0 /\ stage = 0
     /\ input = 0 /\ sec = 0 /\ prf = 0 /\ chal = 0 /\ forged = 0 /\ ring = 0 /\
     context = 0 /\ my_idx = 0 /\ u = 0 /\ commits = 0 /\ signatures = 0 /\ at = 0
     /\ tags = 0 /\ invalid = 0 /\ intermediate = 0 /\ level = 0 /\ cipher = 0 /\
     clear = 0 /\ bad = 0 /\ swaps = 0 /\ onion = 0 /\ replaced = 0 /\ verdict = 0
     /\ file = 0 /\ fs_enabled = 0 /\ _keys = 0 /\ _sorted_keys = 0 /\ added = 0 /\
     found = 0 /\ ident = 0 /\ stream = 0 /\ back = 0 /\ roster = 0 /\ kind = 0 /\
     value = 0 /\ offset = 0 /\ run = 0 /\ count = 0 /\ key = 0 /\ pc = 0 /\ next =
     0 /\ privdir = 0 /\ pubdir = 0 /\ faults = 0 /\ mine = 0 /\ mine_of = 0 /\ peer
     = 0 /\ peer_of = 0
  \/ part = "hashing" /\ Hashing!Init
     /\ in = 0 /\ num = 0 /\ size = 0 /\ str = 0 /\ point = 0 /\ blind = 0 /\ _phase = 0 /\
     _client_ciphertexts = 0 /\ _client_pubs = 0 /\ _server_ciphertexts = 0 /\
     _client_pks = 0 /\ shares = 0 /\ reported = 0 /\ data = 0 /\ keys = 0 /\ box =
     0 /\ out = 0 /\ phase = 0 /\ stmt = 0 /\ texts = 0 /\ server = 0 /\ stage = 0
     /\ input = 0 /\ sec = 0 /\ prf = 0 /\ chal = 0 /\ forged = 0 /\ ring = 0 /\
     context = 0 /\ my_idx = 0 /\ u = 0 /\ commits = 0 /\ signatures = 0 /\ at = 0
     /\ tags = 0 /\ invalid = 0 /\ intermediate = 0 /\ level = 0 /\ cipher = 0 /\
     clear = 0 /\ bad = 0 /\ swaps = 0 /\ onion = 0 /\ replaced = 0 /\ verdict = 0
     /\ file = 0 /\ fs_enabled = 0 /\ _keys = 0 /\ _sorted_keys = 0 /\ added = 0 /\
     found = 0 /\ ident = 0 /\ stream = 0 /\ back = 0 /\ roster = 0 /\ kind = 0 /\
     value = 0 /\ offset = 0 /\ run = 0 /\ count = 0 /\ key = 0 /\ pc = 0 /\ next =
     0 /\ privdir = 0 /\ pubdir = 0 /\ faults = 0 /\ mine = 0 /\ mine_of = 0 /\ peer
     = 0 /\ peer_of = 0
  \/ part = "bin" /\ Bin!Init
     /\ in = 0 /\ num = 0 /\ size = 0 /\ str = 0 /\ point = 0 /\ blind = 0 /\ step = 0 /\
     ser = 0 /\ cover = 0 /\ xs = 0 /\ auth = 0 /\ ms = 0 /\ msg = 0 /\ oracle = 0
     /\ ok = 0 /\ data = 0 /\ keys = 0 /\ box = 0 /\ out = 0 /\ phase = 0 /\ stmt =
     0 /\ texts = 0 /\ server = 0 /\ stage = 0 /\ input = 0 /\ sec = 0 /\ prf = 0 /\
     chal = 0 /\ forged = 0 /\ ring = 0 /\ context = 0 /\ my_idx = 0 /\ u = 0 /\
     commits = 0 /\ signatures = 0 /\ at = 0 /\ tags = 0 /\ invalid = 0 /\
     intermediate = 0 /\ level = 0 /\ cipher = 0 /\ clear = 0 /\ bad = 0 /\ swaps =
     0 /\ onion = 0 /\ replaced = 0 /\ verdict = 0 /\ file = 0 /\ fs_enabled = 0 /\
     _keys = 0 /\ _sorted_keys = 0 /\ added = 0 /\ found = 0 /\ ident = 0 /\ stream
     = 0 /\ back = 0 /\ roster = 0 /\ kind = 0 /\ value = 0 /\ offset = 0 /\ run = 0
     /\ count = 0 /\ key = 0 /\ pc = 0 /\ next = 0 /\ privdir = 0 /\ pubdir = 0 /\
     faults = 0 /\ mine = 0 /\ mine_of = 0 /\ peer = 0 /\ peer_of = 0
  \/ part = "phases" /\ Phases!Init
     /\ in = 0 /\ num = 0 /\ size = 0 /\ str = 0 /\ point = 0 /\ blind = 0 /\ step = 0 /\
     ser = 0 /\ cover = 0 /\ xs = 0 /\ auth = 0 /\ ms = 0 /\ msg = 0 /\ oracle = 0
     /\ ok = 0 /\ data = 0 /\ keys = 0 /\ box = 0 /\ out = 0 /\ phase = 0 /\ stmt =
     0 /\ texts = 0 /\ server = 0 /\ stage = 0 /\ input = 0 /\ sec = 0 /\ prf = 0 /\
     chal = 0 /\ forged = 0 /\ ring = 0 /\ context = 0 /\ my_idx = 0 /\ u = 0 /\
     commits = 0 /\ signatures = 0 /\ at = 0 /\ tags = 0 /\ invalid = 0 /\
     intermediate = 0 /\ level = 0 /\ cipher = 0 /\ clear = 0 /\ bad = 0 /\ swaps =
     0 /\ onion = 0 /\ replaced = 0 /\ verdict = 0 /\ file = 0 /\ fs_enabled = 0 /\
     _keys = 0 /\ _sorted_keys = 0 /\ added = 0 /\ found = 0 /\ ident = 0 /\ stream
     = 0 /\ back = 0 /\ roster = 0 /\ kind = 0 /\ value = 0 /\ offset = 0 /\ run = 0
     /\ count = 0 /\ key = 0 /\ pc = 0 /\ next = 0 /\ privdir = 0 /\ pubdir = 0 /\
     faults = 0 /\ mine = 0 /\ mine_of = 0 /\ peer = 0 /\ peer_of = 0
  \/ part = "raw" /\ Raw!Init
     /\ in = 0 /\ num = 0 /\ size = 0 /\ str = 0 /\ point = 0 /\ blind = 0 /\ step = 0 /\
     ser = 0 /\ cover = 0 /\ xs = 0 /\ auth = 0 /\ ms = 0 /\ msg = 0 /\ oracle = 0
     /\ ok = 0 /\ _phase = 0 /\ _client_ciphertexts = 0 /\ _client_pubs = 0 /\
     _server_ciphertexts = 0 /\ _client_pks = 0 /\ shares = 0 /\ reported = 0 /\
     texts = 0 /\ server = 0 /\ stage = 0 /\ input = 0 /\ sec = 0 /\ prf = 0 /\ chal
     = 0 /\ forged = 0 /\ ring = 0 /\ context = 0 /\ my_idx = 0 /\ u = 0 /\ commits
     = 0 /\ signatures = 0 /\ at = 0 /\ tags = 0 /\ invalid = 0 /\ intermediate = 0
     /\ level = 0 /\ cipher = 0 /\ clear = 0 /\ bad = 0 /\ swaps = 0 /\ onion = 0 /\
     replaced = 0 /\ verdict = 0 /\ file = 0 /\ fs_enabled = 0 /\ _keys = 0 /\
     _sorted_keys = 0 /\ added = 0 /\ found = 0 /\ ident = 0 /\ stream = 0 /\ back =
     0 /\ roster = 0 /\ kind = 0 /\ value = 0 /\ offset = 0 /\ run = 0 /\ count = 0
     /\ key = 0 /\ pc = 0 /\ next = 0 /\ privdir = 0 /\ pubdir = 0 /\ faults = 0 /\
     mine = 0 /\ mine_of = 0 /\ peer = 0 /\ peer_of = 0
  \/ part = "padded" /\ Padded!Init
     /\ in = 0 /\ num = 0 /\ size = 0 /\ str = 0 /\ point = 0 /\ blind = 0 /\ step = 0 /\
     ser = 0 /\ cover = 0 /\ xs = 0 /\ auth = 0 /\ ms = 0 /\ msg = 0 /\ oracle = 0
     /\ ok = 0 /\ _phase = 0 /\ _client_ciphertexts = 0 /\ _client_pubs = 0 /\
     _server_ciphertexts = 0 /\ _client_pks = 0 /\ shares = 0 /\ reported = 0 /\
     texts = 0 /\ server = 0 /\ stage = 0 /\ input = 0 /\ sec = 0 /\ prf = 0 /\ chal
     = 0 /\ forged = 0 /\ ring = 0 /\ context = 0 /\ my_idx = 0 /\ u = 0 /\ commits
     = 0 /\ signatures = 0 /\ at = 0 /\ tags = 0 /\ invalid = 0 /\ intermediate = 0
     /\ level = 0 /\ cipher = 0 /\ clear = 0 /\ bad = 0 /\ swaps = 0 /\ onion = 0 /\
     replaced = 0 /\ verdict = 0 /\ file = 0 /\ fs_enabled = 0 /\ _keys = 0 /\
     _sorted_keys = 0 /\ added = 0 /\ found = 0 /\ ident = 0 /\ stream = 0 /\ back =
     0 /\ roster = 0 /\ kind = 0 /\ value = 0 /\ offset = 0 /\ run = 0 /\ count = 0
     /\ key = 0 /\ pc = 0 /\ next = 0 /\ privdir = 0 /\ pubdir = 0 /\ faults = 0 /\
     mine = 0 /\ mine_of = 0 /\ peer = 0 /\ peer_of = 0
  \/ part = "shuffle" /\ Shuffle!Init
     /\ in = 0 /\ num = 0 /\ size = 0 /\ str = 0 /\ point = 0 /\ blind = 0 /\ step = 0 /\
     ser = 0 /\ cover = 0 /\ xs = 0 /\ auth = 0 /\ ms = 0 /\ msg = 0 /\ oracle = 0
     /\ _phase = 0 /\ _client_ciphertexts = 0 /\ _client_pubs = 0 /\
     _server_ciphertexts = 0 /\ _client_pks = 0 /\ shares = 0 /\ reported = 0 /\
     data = 0 /\ keys = 0 /\ box = 0 /\ out = 0 /\ phase = 0 /\ stmt = 0 /\ ring = 0
     /\ context = 0 /\ my_idx = 0 /\ u = 0 /\ commits = 0 /\ signatures = 0 /\ at =
     0 /\ tags = 0 /\ invalid = 0 /\ intermediate = 0 /\ level = 0 /\ cipher = 0 /\
     clear = 0 /\ bad = 0 /\ swaps = 0 /\ onion = 0 /\ replaced = 0 /\ verdict = 0
     /\ file = 0 /\ fs_enabled = 0 /\ _keys = 0 /\ _sorted_keys = 0 /\ added = 0 /\
     found = 0 /\ ident = 0 /\ stream = 0 /\ back = 0 /\ roster = 0 /\ kind = 0 /\
     value = 0 /\ offset = 0 /\ run = 0 /\ count = 0 /\ key = 0 /\ pc = 0 /\ next =
     0 /\ privdir = 0 /\ pubdir = 0 /\ faults = 0 /\ mine = 0 /\ mine_of = 0 /\ peer
     = 0 /\ peer_of = 0
  \/ part = "shuffles" /\ Shuffles!Init
     /\ in = 0 /\ num = 0 /\ size = 0 /\ str = 0 /\ point = 0 /\ blind = 0 /\ step = 0 /\
     ser = 0 /\ cover = 0 /\ xs = 0 /\ auth = 0 /\ ms = 0 /\ msg = 0 /\ oracle = 0
     /\ _phase = 0 /\ _client_ciphertexts = 0 /\ _client_pubs = 0 /\
     _server_ciphertexts = 0 /\ _client_pks = 0 /\ shares = 0 /\ reported = 0 /\
     data = 0 /\ keys = 0 /\ box = 0 /\ out = 0 /\ phase = 0 /\ stmt = 0 /\ ring = 0
     /\ context = 0 /\ my_idx = 0 /\ u = 0 /\ commits = 0 /\ signatures = 0 /\ at =
     0 /\ tags = 0 /\ invalid = 0 /\ intermediate = 0 /\ level = 0 /\ cipher = 0 /\
     clear = 0 /\ bad = 0 /\ swaps = 0 /\ onion = 0 /\ replaced = 0 /\ verdict = 0
     /\ file = 0 /\ fs_enabled = 0 /\ _keys = 0 /\ _sorted_keys = 0 /\ added = 0 /\
     found = 0 /\ ident = 0 /\ stream = 0 /\ back = 0 /\ roster = 0 /\ kind = 0 /\
     value = 0 /\ offset = 0 /\ run = 0 /\ count = 0 /\ key = 0 /\ pc = 0 /\ next =
     0 /\ privdir = 0 /\ pubdir = 0 /\ faults = 0 /\ mine = 0 /\ mine_of = 0 /\ peer
     = 0 /\ peer_of = 0
  \/ part = "ring" /\ Ring!Init
     /\ in = 0 /\ num = 0 /\ size = 0 /\ str = 0 /\ point = 0 /\ blind = 0 /\ step = 0 /\
     ser = 0 /\ cover = 0 /\ xs = 0 /\ auth = 0 /\ ms = 0 /\ msg = 0 /\ _phase = 0
     /\ _client_ciphertexts = 0 /\ _client_pubs = 0 /\ _server_ciphertexts = 0 /\
     _client_pks = 0 /\ shares = 0 /\ reported = 0 /\ keys = 0 /\ box = 0 /\ out = 0
     /\ phase = 0 /\ stmt = 0 /\ texts = 0 /\ server = 0 /\ stage = 0 /\ input = 0
     /\ sec = 0 /\ prf = 0 /\ chal = 0 /\ forged = 0 /\ invalid = 0 /\ intermediate
     = 0 /\ level = 0 /\ cipher = 0 /\ clear = 0 /\ bad = 0 /\ swaps = 0 /\ onion =
     0 /\ replaced = 0 /\ verdict = 0 /\ file = 0 /\ fs_enabled = 0 /\ _keys = 0 /\
     _sorted_keys = 0 /\ added = 0 /\ found = 0 /\ ident = 0 /\ stream = 0 /\ back =
     0 /\ roster = 0 /\ kind = 0 /\ value = 0 /\ offset = 0 /\ run = 0 /\ count = 0
     /\ key = 0 /\ pc = 0 /\ next = 0 /\ privdir = 0 /\ pubdir = 0 /\ faults = 0 /\
     mine = 0 /\ mine_of = 0 /\ peer = 0 /\ peer_of = 0
  \/ part = "onion" /\ Onions!Init
     /\ in = 0 /\ num = 0 /\ size = 0 /\ str = 0 /\ point = 0 /\ blind = 0 /\ step = 0 /\
     ser = 0 /\ cover = 0 /\ xs = 0 /\ auth = 0 /\ ms = 0 /\ msg = 0 /\ oracle = 0
     /\ ok = 0 /\ _phase = 0 /\ _client_ciphertexts = 0 /\ _client_pubs = 0 /\
     _server_ciphertexts = 0 /\ _client_pks = 0 /\ shares = 0 /\ reported = 0 /\
     data = 0 /\ keys = 0 /\ box = 0 /\ out = 0 /\ phase = 0 /\ stmt = 0 /\ server =
     0 /\ input = 0 /\ sec = 0 /\ prf = 0 /\ chal = 0 /\ forged = 0 /\ ring = 0 /\
     context = 0 /\ my_idx = 0 /\ u = 0 /\ commits = 0 /\ signatures = 0 /\ at = 0
     /\ tags = 0 /\ file = 0 /\ fs_enabled = 0 /\ _keys = 0 /\ _sorted_keys = 0 /\
     added = 0 /\ found = 0 /\ ident = 0 /\ stream = 0 /\ back = 0 /\ roster = 0 /\
     kind = 0 /\ value = 0 /\ offset = 0 /\ run = 0 /\ count = 0 /\ key = 0 /\ pc =
     0 /\ next = 0 /\ privdir = 0 /\ pubdir = 0 /\ faults = 0 /\ mine = 0 /\ mine_of
     = 0 /\ peer = 0 /\ peer_of = 0
  \/ part = "names" /\ Names!Init
     /\ in = 0 /\ num = 0 /\ size = 0 /\ str = 0 /\ point = 0 /\ blind = 0 /\ step = 0 /\
     ser = 0 /\ cover = 0 /\ xs = 0 /\ auth = 0 /\ ms = 0 /\ msg = 0 /\ oracle = 0
     /\ ok = 0 /\ _phase = 0 /\ _client_ciphertexts = 0 /\ _client_pubs = 0 /\
     _server_ciphertexts = 0 /\ _client_pks = 0 /\ shares = 0 /\ reported = 0 /\
     data = 0 /\ keys = 0 /\ box = 0 /\ out = 0 /\ phase = 0 /\ stmt = 0 /\ texts =
     0 /\ server = 0 /\ stage = 0 /\ input = 0 /\ sec = 0 /\ prf = 0 /\ chal = 0 /\
     forged = 0 /\ ring = 0 /\ context = 0 /\ my_idx = 0 /\ u = 0 /\ commits = 0 /\
     signatures = 0 /\ at = 0 /\ tags = 0 /\ invalid = 0 /\ intermediate = 0 /\
     level = 0 /\ cipher = 0 /\ clear = 0 /\ bad = 0 /\ swaps = 0 /\ onion = 0 /\
     replaced = 0 /\ verdict = 0 /\ ident = 0 /\ stream = 0 /\ back = 0 /\ roster =
     0 /\ kind = 0 /\ value = 0 /\ offset = 0 /\ run = 0 /\ count = 0 /\ key = 0 /\
     pc = 0 /\ next = 0 /\ privdir = 0 /\ pubdir = 0 /\ faults = 0 /\ mine = 0 /\
     mine_of = 0 /\ peer = 0 /\ peer_of = 0
  \/ part = "ids" /\ Wire!Init
     /\ in = 0 /\ num = 0 /\ size = 0 /\ str = 0 /\ point = 0 /\ blind = 0 /\ step = 0 /\
     ser = 0 /\ cover = 0 /\ xs = 0 /\ auth = 0 /\ ms = 0 /\ msg = 0 /\ oracle = 0
     /\ ok = 0 /\ _phase = 0 /\ _client_ciphertexts = 0 /\ _client_pubs = 0 /\
     _server_ciphertexts = 0 /\ _client_pks = 0 /\ shares = 0 /\ reported = 0 /\
     data = 0 /\ keys = 0 /\ box = 0 /\ out = 0 /\ stmt = 0 /\ texts = 0 /\ server =
     0 /\ stage = 0 /\ input = 0 /\ sec = 0 /\ prf = 0 /\ chal = 0 /\ forged = 0 /\
     ring = 0 /\ context = 0 /\ my_idx = 0 /\ u = 0 /\ commits = 0 /\ signatures = 0
     /\ at = 0 /\ tags = 0 /\ invalid = 0 /\ intermediate = 0 /\ level = 0 /\ cipher
     = 0 /\ clear = 0 /\ bad = 0 /\ swaps = 0 /\ onion = 0 /\ replaced = 0 /\
     verdict = 0 /\ file = 0 /\ fs_enabled = 0 /\ _keys = 0 /\ _sorted_keys = 0 /\
     added = 0 /\ found = 0 /\ kind = 0 /\ value = 0 /\ offset = 0 /\ run = 0 /\
     count = 0 /\ key = 0 /\ pc = 0 /\ next = 0 /\ privdir = 0 /\ pubdir = 0 /\
     faults = 0 /\ mine = 0 /\ mine_of = 0 /\ peer = 0 /\ peer_of = 0
  \/ part = "utils" /\ Utils!Init
     /\ in = 0 /\ num = 0 /\ size = 0 /\ str = 0 /\ point = 0 /\ blind = 0 /\ step = 0 /\
     ser = 0 /\ cover = 0 /\ xs = 0 /\ auth = 0 /\ ms = 0 /\ msg = 0 /\ oracle = 0
     /\ ok = 0 /\ _phase = 0 /\ _client_ciphertexts = 0 /\ _client_pubs = 0 /\
     _server_ciphertexts = 0 /\ _client_pks = 0 /\ shares = 0 /\ reported = 0 /\
     keys = 0 /\ box = 0 /\ out = 0 /\ phase = 0 /\ stmt = 0 /\ texts = 0 /\ server
     = 0 /\ input = 0 /\ sec = 0 /\ prf = 0 /\ chal = 0 /\ forged = 0 /\ ring = 0 /\
     context = 0 /\ my_idx = 0 /\ u = 0 /\ commits = 0 /\ signatures = 0 /\ at = 0
     /\ tags = 0 /\ invalid = 0 /\ intermediate = 0 /\ level = 0 /\ cipher = 0 /\
     clear = 0 /\ bad = 0 /\ swaps = 0 /\ onion = 0 /\ replaced = 0 /\ verdict = 0
     /\ file = 0 /\ fs_enabled = 0 /\ _keys = 0 /\ _sorted_keys = 0 /\ added = 0 /\
     found = 0 /\ ident = 0 /\ stream = 0 /\ roster = 0 /\ run = 0 /\ count = 0 /\
     key = 0 /\ pc = 0 /\ next = 0 /\ privdir = 0 /\ pubdir = 0 /\ faults = 0 /\
     mine = 0 /\ mine_of = 0 /\ peer = 0 /\ peer_of = 0
  \/ part = "files" /\ Files!Init
     /\ in = 0 /\ num = 0 /\ size = 0 /\ str = 0 /\ point = 0 /\ blind = 0 /\ step = 0 /\
     ser = 0 /\ cover = 0 /\ xs = 0 /\ auth = 0 /\ ms = 0 /\ msg = 0 /\ oracle = 0
     /\ ok = 0 /\ _phase = 0 /\ _client_ciphertexts = 0 /\ _client_pubs = 0 /\
     _server_ciphertexts = 0 /\ _client_pks = 0 /\ shares = 0 /\ reported = 0 /\
     data = 0 /\ keys = 0 /\ box = 0 /\ out = 0 /\ phase = 0 /\ stmt = 0 /\ texts =
     0 /\ server = 0 /\ stage = 0 /\ input = 0 /\ sec = 0 /\ prf = 0 /\ chal = 0 /\
     forged = 0 /\ ring = 0 /\ context = 0 /\ my_idx = 0 /\ u = 0 /\ commits = 0 /\
     signatures = 0 /\ at = 0 /\ tags = 0 /\ invalid = 0 /\ intermediate = 0 /\
     level = 0 /\ cipher = 0 /\ clear = 0 /\ bad = 0 /\ swaps = 0 /\ onion = 0 /\
     replaced = 0 /\ verdict = 0 /\ file = 0 /\ fs_enabled = 0 /\ _keys = 0 /\
     _sorted_keys = 0 /\ added = 0 /\ found = 0 /\ ident = 0 /\ stream = 0 /\ back =
     0 /\ roster = 0 /\ kind = 0 /\ value = 0 /\ offset = 0
Next ==
  /\ UNCHANGED part
  /\ \/ part = "group"
        /\ GroupCall([s \in Group!Encodable |-> Group!EncodeBytes(s)],
                     [a \in Group!Element |-> Group!DecodeBytes(a)])
        /\ UNCHANGED <<str, point, blind, step, ser, cover, xs, auth, ms, msg, oracle, ok, _phase,
             _client_ciphertexts, _client_pubs, _server_ciphertexts, _client_pks, shares,
             reported, data, keys, box, out, phase, stmt, texts, server, stage, input, sec,
             prf, chal, forged, ring, context, my_idx, u, commits, signatures, at, tags,
             invalid, intermediate, level, cipher, clear, bad, swaps, onion, replaced,
             verdict, file, fs_enabled, _keys, _sorted_keys, added, found, ident, stream,
             back, roster, kind, value, offset, run, count, key, pc, next, privdir, pubdir,
             faults, mine, mine_of, peer, peer_of>>
     \/ part = "bytes"
        /\ GroupCall([s \in Bytes!Encodable |-> Bytes!EncodeBytes(s)],
                     [a \in Bytes!Element |-> Bytes!DecodeBytes(a)])
        /\ UNCHANGED <<str, point, blind, step, ser, cover, xs, auth, ms, msg, oracle, ok, _phase,
             _client_ciphertexts, _client_pubs, _server_ciphertexts, _client_pks, shares,
             reported, data, keys, box, out, phase, stmt, texts, server, stage, input, sec,
             prf, chal, forged, ring, context, my_idx, u, commits, signatures, at, tags,
             invalid, intermediate, level, cipher, clear, bad, swaps, onion, replaced,
             verdict, file, fs_enabled, _keys, _sorted_keys, added, found, ident, stream,
             back, roster, kind, value, offset, run, count, key, pc, next, privdir, pubdir,
             faults, mine, mine_of, peer, peer_of>>
     \/ part = "curve" /\ Curve!Next
        /\ UNCHANGED <<in, num, size, step, ser, cover, xs, auth, ms, msg, oracle, ok, _phase,
             _client_ciphertexts, _client_pubs, _server_ciphertexts, _client_pks, shares,
             reported, data, keys, box, out, phase, stmt, texts, server, stage, input, sec,
             prf, chal, forged, ring, context, my_idx, u, commits, signatures, at, tags,
             invalid, intermediate, level, cipher, clear, bad, swaps, onion, replaced,
             verdict, file, fs_enabled, _keys, _sorted_keys, added, found, ident, stream,
             back, roster, kind, value, offset, run, count, key, pc, next, privdir, pubdir,
             faults, mine, mine_of, peer, peer_of>>
     \/ part = "elgamal" /\ ElGamal!Next
        /\ UNCHANGED <<in, num, size, str, point, blind, _phase, _client_ciphertexts, _client_pubs,
             _server_ciphertexts, _client_pks, shares, reported, data, keys, box, out,
             phase, stmt, texts, server, stage, input, sec, prf, chal, forged, ring,
             context, my_idx, u, commits, signatures, at, tags, invalid, intermediate,
             level, cipher, clear, bad, swaps, onion, replaced, verdict, file, fs_enabled,
             _keys, _sorted_keys, added, found, ident, stream, back, roster, kind, value,
             offset, run, count, key, pc, next, privdir, pubdir, faults, mine, mine_of,
             peer, peer_of>>
     \/ part = "hashing" /\ Hashing!Next
        /\ UNCHANGED <<in, num, size, str, point, blind, _phase, _client_ciphertexts, _client_pubs,
             _server_ciphertexts, _client_pks, shares, reported, data, keys, box, out,
             phase, stmt, texts, server, stage, input, sec, prf, chal, forged, ring,
             context, my_idx, u, commits, signatures, at, tags, invalid, intermediate,
             level, cipher, clear, bad, swaps, onion, replaced, verdict, file, fs_enabled,
             _keys, _sorted_keys, added, found, ident, stream, back, roster, kind, value,
             offset, run, count, key, pc, next, privdir, pubdir, faults, mine, mine_of,
             peer, peer_of>>
     \/ part = "bin" /\ Bin!Next
        /\ UNCHANGED <<in, num, size, str, point, blind, step, ser, cover, xs, auth, ms, msg, oracle,
             ok, data, keys, box, out, phase, stmt, texts, server, stage, input, sec, prf,
             chal, forged, ring, context, my_idx, u, commits, signatures, at, tags, invalid,
             intermediate, level, cipher, clear, bad, swaps, onion, replaced, verdict, file,
             fs_enabled, _keys, _sorted_keys, added, found, ident, stream, back, roster,
             kind, value, offset, run, count, key, pc, next, privdir, pubdir, faults, mine,
             mine_of, peer, peer_of>>
     \/ part = "phases" /\ Phases!Next
        /\ UNCHANGED <<in, num, size, str, point, blind, step, ser, cover, xs, auth, ms, msg, oracle,
             ok, data, keys, box, out, phase, stmt, texts, server, stage, input, sec, prf,
             chal, forged, ring, context, my_idx, u, commits, signatures, at, tags, invalid,
             intermediate, level, cipher, clear, bad, swaps, onion, replaced, verdict, file,
             fs_enabled, _keys, _sorted_keys, added, found, ident, stream, back, roster,
             kind, value, offset, run, count, key, pc, next, privdir, pubdir, faults, mine,
             mine_of, peer, peer_of>>
     \/ part = "raw" /\ Raw!Next
        /\ UNCHANGED <<in, num, size, str, point, blind, step, ser, cover, xs, auth, ms, msg, oracle,
             ok, _phase, _client_ciphertexts, _client_pubs, _server_ciphertexts,
             _client_pks, shares, reported, texts, server, stage, input, sec, prf, chal,
             forged, ring, context, my_idx, u, commits, signatures, at, tags, invalid,
             intermediate, level, cipher, clear, bad, swaps, onion, replaced, verdict, file,
             fs_enabled, _keys, _sorted_keys, added, found, ident, stream, back, roster,
             kind, value, offset, run, count, key, pc, next, privdir, pubdir, faults, mine,
             mine_of, peer, peer_of>>
     \/ part = "padded" /\ Padded!Next
        /\ UNCHANGED <<in, num, size, str, point, blind, step, ser, cover, xs, auth, ms, msg, oracle,
             ok, _phase, _client_ciphertexts, _client_pubs, _server_ciphertexts,
             _client_pks, shares, reported, texts, server, stage, input, sec, prf, chal,
             forged, ring, context, my_idx, u, commits, signatures, at, tags, invalid,
             intermediate, level, cipher, clear, bad, swaps, onion, replaced, verdict, file,
             fs_enabled, _keys, _sorted_keys, added, found, ident, stream, back, roster,
             kind, value, offset, run, count, key, pc, next, privdir, pubdir, faults, mine,
             mine_of, peer, peer_of>>
     \/ part = "shuffle" /\ Shuffle!Next
        /\ UNCHANGED <<in, num, size, str, point, blind, step, ser, cover, xs, auth, ms, msg, oracle,
             _phase, _client_ciphertexts, _client_pubs, _server_ciphertexts, _client_pks,
             shares, reported, data, keys, box, out, phase, stmt, ring, context, my_idx, u,
             commits, signatures, at, tags, invalid, intermediate, level, cipher, clear,
             bad, swaps, onion, replaced, verdict, file, fs_enabled, _keys, _sorted_keys,
             added, found, ident, stream, back, roster, kind, value, offset, run, count,
             key, pc, next, privdir, pubdir, faults, mine, mine_of, peer, peer_of>>
     \/ part = "shuffles" /\ Shuffles!Next
        /\ UNCHANGED <<in, num, size, str, point, blind, step, ser, cover, xs, auth, ms, msg, oracle,
             _phase, _client_ciphertexts, _client_pubs, _server_ciphertexts, _client_pks,
             shares, reported, data, keys, box, out, phase, stmt, ring, context, my_idx, u,
             commits, signatures, at, tags, invalid, intermediate, level, cipher, clear,
             bad, swaps, onion, replaced, verdict, file, fs_enabled, _keys, _sorted_keys,
             added, found, ident, stream, back, roster, kind, value, offset, run, count,
             key, pc, next, privdir, pubdir, faults, mine, mine_of, peer, peer_of>>
     \/ part = "ring" /\ Ring!Next
        /\ UNCHANGED <<in, num, size, str, point, blind, step, ser, cover, xs, auth, ms, msg, _phase,
             _client_ciphertexts, _client_pubs, _server_ciphertexts, _client_pks, shares,
             reported, keys, box, out, phase, stmt, texts, server, stage, input, sec, prf,
             chal, forged, invalid, intermediate, level, cipher, clear, bad, swaps, onion,
             replaced, verdict, file, fs_enabled, _keys, _sorted_keys, added, found, ident,
             stream, back, roster, kind, value, offset, run, count, key, pc, next, privdir,
             pubdir, faults, mine, mine_of, peer, peer_of>>
     \/ part = "onion" /\ Onions!Next
        /\ UNCHANGED <<in, num, size, str, point, blind, step, ser, cover, xs, auth, ms, msg, oracle,
             ok, _phase, _client_ciphertexts, _client_pubs, _server_ciphertexts,
             _client_pks, shares, reported, data, keys, box, out, phase, stmt, server,
             input, sec, prf, chal, forged, ring, context, my_idx, u, commits, signatures,
             at, tags, file, fs_enabled, _keys, _sorted_keys, added, found, ident, stream,
             back, roster, kind, value, offset, run, count, key, pc, next, privdir, pubdir,
             faults, mine, mine_of, peer, peer_of>>
     \/ part = "names" /\ Names!Next
        /\ UNCHANGED <<in, num, size, str, point, blind, step, ser, cover, xs, auth, ms, msg, oracle,
             ok, _phase, _client_ciphertexts, _client_pubs, _server_ciphertexts,
             _client_pks, shares, reported, data, keys, box, out, phase, stmt, texts,
             server, stage, input, sec, prf, chal, forged, ring, context, my_idx, u,
             commits, signatures, at, tags, invalid, intermediate, level, cipher, clear,
             bad, swaps, onion, replaced, verdict, ident, stream, back, roster, kind, value,
             offset, run, count, key, pc, next, privdir, pubdir, faults, mine, mine_of,
             peer, peer_of>>
     \/ part = "ids" /\ Wire!Next
        /\ UNCHANGED <<in, num, size, str, point, blind, step, ser, cover, xs, auth, ms, msg, oracle,
             ok, _phase, _client_ciphertexts, _client_pubs, _server_ciphertexts,
             _client_pks, shares, reported, data, keys, box, out, stmt, texts, server,
             stage, input, sec, prf, chal, forged, ring, context, my_idx, u, commits,
             signatures, at, tags, invalid, intermediate, level, cipher, clear, bad, swaps,
             onion, replaced, verdict, file, fs_enabled, _keys, _sorted_keys, added, found,
             kind, value, offset, run, count, key, pc, next, privdir, pubdir, faults, mine,
             mine_of, peer, peer_of>>
     \/ part = "utils" /\ Utils!Next
        /\ UNCHANGED <<in, num, size, str, point, blind, step, ser, cover, xs, auth, ms, msg, oracle,
             ok, _phase, _client_ciphertexts, _client_pubs, _server_ciphertexts,
             _client_pks, shares, reported, keys, box, out, phase, stmt, texts, server,
             input, sec, prf, chal, forged, ring, context, my_idx, u, commits, signatures,
             at, tags, invalid, intermediate, level, cipher, clear, bad, swaps, onion,
             replaced, verdict, file, fs_enabled, _keys, _sorted_keys, added, found, ident,
             stream, roster, run, count, key, pc, next, privdir, pubdir, faults, mine,
             mine_of, peer, peer_of>>
     \/ part = "files" /\ Files!Next
        /\ UNCHANGED <<in, num, size, str, point, blind, step, ser, cover, xs, auth, ms, msg, oracle,
             ok, _phase, _client_ciphertexts, _client_pubs, _server_ciphertexts,
             _client_pks, shares, reported, data, keys, box, out, phase, stmt, texts,
             server, stage, input, sec, prf, chal, forged, ring, context, my_idx, u,
             commits, signatures, at, tags, invalid, intermediate, level, cipher, clear,
             bad, swaps, onion, replaced, verdict, file, fs_enabled, _keys, _sorted_keys,
             added, found, ident, stream, back, roster, kind, value, offset>>
Spec == Init /\ [][Next]_vars

-----------------------------------------------------------------------------
(* Properties *)

\* Strings come back from their elements and points, also when these were
\* blinded on the way, and the test of an element accepts exactly the powers of
\* the generator (EncodeBytes, DecodeBytes, IsElement).  What is encrypted for one
\* key, a series of keys or an onion comes back, all texts come out of the
\* shuffles, and keys and identities are found again under their names, in
\* streams, text and the files of Keygen (Decrypt, Shuffle, VerifyAll, GetKey,
\* GetIndex, Serialization, Save).
ComesBack ==
  /\ part = "group" => Group!Subgroup(num)
  /\ part = "bytes" => Bytes!Roundtrip(in)
  /\ part = "curve" => Curve!StringComesBack
  /\ part = "raw" => Raw!StringComesBack
  /\ part = "padded" => Padded!StringComesBack
  /\ part = "shuffle" => Shuffle!SameTexts
  /\ part = "shuffles" => Shuffles!SameTexts
  /\ part = "onion" => Onions!PeelsToTexts
  /\ part = "names" => Names!SharesKeys
  /\ part = "ids" => Wire!IdentityComesBack /\ Wire!RosterInOrder
  /\ part = "utils" => Utils!ValueComesBack
  /\ part = "files" => Files!KeysComeBack

\* Whatever is drawn and hashed, honest ciphertexts and keys pass VerifyProof
\* after their trip through bytes (SetProof, SetAuthorProof, CloseBin), and so do
\* shared secrets, shuffles and the signatures of a ring, but for the numbers
\* that their own modules name (ProveSharedSecret, Shuffle, Sign).
HonestPass ==
  /\ part = "elgamal" => ElGamal!HonestPass
  /\ part = "hashing" => Hashing!HonestPass
  /\ part = "raw" => Raw!SecretProved
  /\ part = "padded" => Padded!SecretProved
  /\ part = "shuffle" => Shuffle!HonestPass
  /\ part = "shuffles" => Shuffles!HonestPass
  /\ part = "ring" => Ring!SignaturePasses

\* With hashed generators a ciphertext that carries something fits at most one
\* challenge, and so does a server's wrong share: only the author passes for every
\* hash (VerifyProof).  The same holds of a changed text in a shuffle and of a
\* wrong secret (Verify, VerifySharedSecret).  What is true but for its sign, an
\* ElGamal share or a secret, fits the challenges of one parity, as nothing tests
\* that it is an element.  A ring's tags tell its members apart, and a layer of an
\* onion that was tampered with is found.
OneChallenge ==
  /\ part = "elgamal" => ElGamal!OneChallenge
  /\ part = "hashing" => Hashing!OneChallenge
  /\ part = "raw" => Raw!LieRefused
  /\ part = "padded" => Padded!LieRefused
  /\ part = "shuffle" => Shuffle!OneChallenge
  /\ part = "ring" => Ring!Links
  /\ part = "onion" => Onions!FindsReplacer

\* Servers reveal exactly the author's message, and a bin with all shares opens
\* or names a client that sent something bad, unless an ElGamal proof in it was
\* forged; and only such clients are named, also when they are added
\* (RevealPlaintext, FindBadClients, AddClientCiphertexts).
Opens ==
  /\ part = "elgamal" => ElGamal!Revealed
  /\ part = "hashing" => Hashing!Revealed
  /\ part = "bin" => Bin!OpensOrBlames /\ Bin!HonestNotBlamed /\ Bin!HonestNotReported
  /\ part = "phases" => Phases!OpensOrBlames /\ Phases!HonestNotBlamed /\ Phases!HonestNotReported
=============================================================================
