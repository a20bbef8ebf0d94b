--------------------------- MODULE BlogDropServer ---------------------------
(***************************************************************************)
(* The bins of BlogDropServer: the ciphertexts of the clients come in one  *)
(* by one or as a list, checked at once or not, every server closes its    *)
(* bin with a share, checks the shares of the others, and reveals.         *)
(*                                                                         *)
(* A ciphertext is a product of a message and of terms that the shares of  *)
(* the servers remove.  BlogDrop is about the proofs; here a proof is good *)
(* or bad, or passes for a bad ciphertext: the challenge of an ElGamal     *)
(* client is a constant, so anyone can make an answer that fits it.        *)
(***************************************************************************)
EXTENDS Naturals, Sequences, FiniteSets, SequencesExt, FiniteSetsExt

CONSTANTS
  ProofType,          \* "ElGamal" or "HashingGenerator"
  Servers, Clients,
  MaxBin, MaxPhase    \* bounds: ciphertexts in a bin, phases

VARIABLES
  _phase, _client_ciphertexts, _client_pubs, _server_ciphertexts,   \* per server
  _client_pks,   \* the clients of the closed bin, or Open
  shares,        \* the server ciphertexts sent
  reported       \* the list and bad_clients_out of the call that returned last

vars == <<_phase, _client_ciphertexts, _client_pubs, _server_ciphertexts, _client_pks, shares, reported>>
bin == <<_client_ciphertexts, _client_pubs>>
ElGamal == ProofType = "ElGamal"
Open == <<>>   \* no keys: an empty bin cannot be closed
NoReport == [at |-> 0, in |-> <<>>, bad |-> {}]

\* Ciphertexts of a client: of a phase, and with one of the proofs.
Proofs == IF ElGamal THEN {"good", "bad", "forged"} ELSE {"good", "bad"}
Ciphertext == [client : Clients, phase : 0..MaxPhase, proof : Proofs]
Count(c, s) == Cardinality({i \in DOMAIN s : s[i] = c})

\* The proof is for the key of the client; only a hashed generator has a phase.
VerifyProof(c, phase, pub) == c.proof # "bad" /\ (~ElGamal => c.client = pub /\ c.phase = phase)

\* A share is for the one-time keys in the bin, or for the phase.
AnyShare(e, s) == e.from \in Servers   \* mutant: whatever bin or phase it is for
VerifyShare(e, s) ==
  IF ElGamal THEN \A c \in Ciphertext : Count(c, e.bin) = Count(c, _client_ciphertexts[s])
  ELSE e.phase = _phase[s]

\* VerifyProofs: the positions of the good ones, from a pool of threads or not.
Valid(s, in) == SelectSeq([i \in 1..Len(in) |-> i], LAMBDA i : VerifyProof(in[i], _phase[s], in[i].client))
Pick(seq, at) == [i \in 1..Len(at) |-> seq[at[i]]]
Pubs(in) == [i \in DOMAIN in |-> in[i].client]

Init ==
  /\ _phase = [s \in Servers |-> 0] /\ _client_ciphertexts = [s \in Servers |-> <<>>]
  /\ _client_pubs = _client_ciphertexts /\ _server_ciphertexts = _client_ciphertexts
  /\ _client_pks = [s \in Servers |-> Open] /\ shares = {}
  /\ reported = NoReport

-----------------------------------------------------------------------------
(* Operations *)

Add(s, cs, pubs) ==
  /\ _client_ciphertexts' = [_client_ciphertexts EXCEPT ![s] = @ \o cs]
  /\ _client_pubs' = [_client_pubs EXCEPT ![s] = @ \o pubs]

AddClientCiphertext(s, c, verify) ==
  /\ _client_pks[s] = Open /\ Len(_client_ciphertexts[s]) < MaxBin
  /\ IF ~verify \/ VerifyProof(c, _phase[s], c.client) THEN Add(s, <<c>>, <<c.client>>) ELSE UNCHANGED bin
  /\ reported' = NoReport
  /\ UNCHANGED <<_phase, _server_ciphertexts, _client_pks, shares>>

\* The search for culprits runs over the keys in the bin, not over the list: what
\* it finds beyond the end of the list may be anything.
Culprits(s, in) ==
  LET out == Pick(Pubs(in), Valid(s, in))
      n == Len(_client_pubs[s] \o out)
      missing == {i \in 1..n : i <= Len(in) => ~\E k \in DOMAIN out : out[k] = in[i].client}
  IN IF Len(out) = Len(in) THEN {{}}
     ELSE {missing \ beyond : beyond \in SUBSET ((Len(in) + 1)..n)}
AddValid(s, in) == Add(s, Pick(in, Valid(s, in)), Pick(Pubs(in), Valid(s, in)))
AddClientCiphertexts(s, in, verify) ==
  /\ _client_pks[s] = Open /\ Len(_client_ciphertexts[s]) + Len(in) <= MaxBin
  /\ IF verify THEN AddValid(s, in) ELSE Add(s, in, Pubs(in))
  /\ \E b \in Culprits(s, in) :
       reported' = IF verify THEN [at |-> _phase[s], in |-> in, bad |-> b] ELSE NoReport
  /\ UNCHANGED <<_phase, _server_ciphertexts, _client_pks, shares>>

CloseBin(s) ==
  /\ _client_pks[s] = Open /\ _client_pubs[s] # <<>>
  /\ _client_pks' = [_client_pks EXCEPT ![s] = _client_pubs[s]]
  /\ shares' = shares \union {[from |-> s, bin |-> _client_ciphertexts[s], phase |-> _phase[s]]}
  /\ reported' = NoReport
  /\ UNCHANGED <<_phase, _client_ciphertexts, _client_pubs, _server_ciphertexts>>

\* Once per server and bin, as the callers do it.
Missing(s, e) == \A i \in DOMAIN _server_ciphertexts[s] : _server_ciphertexts[s][i].from # e.from
AddServerCiphertext(s, e) ==
  /\ _client_pks[s] # Open /\ Missing(s, e) /\ VerifyShare(e, s)
  /\ _server_ciphertexts' = [_server_ciphertexts EXCEPT ![s] = Append(@, e)]
  /\ reported' = NoReport
  /\ UNCHANGED <<_phase, _client_ciphertexts, _client_pubs, _client_pks, shares>>

\* A share of every server at once; the good ones are kept.
AddServerCiphertexts(s) == \E in \in [Servers -> shares] :
  LET list == SetToSeq({in[t] : t \in Servers})
  IN /\ _client_pks[s] # Open /\ _server_ciphertexts[s] = <<>> /\ \A t \in Servers : in[t].from = t
     /\ _server_ciphertexts' = [_server_ciphertexts EXCEPT ![s] = SelectSeq(list, LAMBDA e : VerifyShare(e, s))]
     /\ reported' = NoReport
     /\ UNCHANGED <<_phase, _client_ciphertexts, _client_pubs, _client_pks, shares>>

ClearBin(s) ==
  /\ _client_ciphertexts' = [_client_ciphertexts EXCEPT ![s] = <<>>]
  /\ _client_pubs' = [_client_pubs EXCEPT ![s] = <<>>]
  /\ _server_ciphertexts' = [_server_ciphertexts EXCEPT ![s] = <<>>]
  /\ _client_pks' = [_client_pks EXCEPT ![s] = Open]
NextPhase(s) ==
  /\ _client_pks[s] # Open /\ _phase[s] < MaxPhase
  /\ ClearBin(s) /\ _phase' = [_phase EXCEPT ![s] = @ + 1]
  /\ reported' = NoReport /\ UNCHANGED shares

\* RevealPlaintext: what is left of the terms is the message alone if every
\* term of a ciphertext met its inverse.
Removed(s, t, c) ==
  MapThenSumSet(LAMBDA i : IF _server_ciphertexts[s][i].from # t THEN 0 ELSE Count(c, _server_ciphertexts[s][i].bin),
                DOMAIN _server_ciphertexts[s])
RevealPlaintext(s) ==
  \A t \in Servers :
    IF ElGamal THEN \A c \in Ciphertext : Count(c, _client_ciphertexts[s]) = Removed(s, t, c)
    ELSE \A n \in Clients :
           /\ Cardinality({i \in DOMAIN _client_ciphertexts[s] : _client_ciphertexts[s][i].client = n
                             /\ _client_ciphertexts[s][i].phase = _phase[s]}) = 1
           /\ Cardinality({e \in Range(_server_ciphertexts[s]) : e.from = t /\ e.phase = _phase[s]}) = 1
Intact(s) == \A i \in DOMAIN _client_ciphertexts[s] : _client_ciphertexts[s][i].proof = "good"

FindBadClients(s) ==
  {i \in DOMAIN _client_ciphertexts[s] : ~VerifyProof(_client_ciphertexts[s][i], _phase[s], _client_pubs[s][i])}

-----------------------------------------------------------------------------
(* A client sends what it made in the server's phase or the one before. *)
Sent(s) == {c \in Ciphertext : c.phase <= _phase[s]}

Step(s) ==
  \/ \E c \in Sent(s), v \in BOOLEAN : AddClientCiphertext(s, c, v)
  \/ \E in \in BoundedSeq(Sent(s), MaxBin) \ {<<>>}, v \in BOOLEAN : AddClientCiphertexts(s, in, v)
  \/ CloseBin(s)
  \/ \E e \in shares : AddServerCiphertext(s, e)
  \/ AddServerCiphertexts(s)
  \/ NextPhase(s)
Next == \E s \in Servers : Step(s)
Spec == Init /\ [][Next]_vars

-----------------------------------------------------------------------------
(* Properties *)

\* Once a bin has the shares of all servers, it opens to the message or a client
\* is found to blame (RevealPlaintext, FindBadClients), unless an ElGamal
\* ciphertext in it has a forged proof; with hashed generators every client has
\* to be in the bin once.
Opened(s) ==
  /\ {_server_ciphertexts[s][i].from : i \in DOMAIN _server_ciphertexts[s]} = Servers
  /\ ElGamal \/ (Len(_client_pubs[s]) = Cardinality(Clients) /\ Range(_client_pubs[s]) = Clients)
Forged(s) == \E i \in DOMAIN _client_ciphertexts[s] : _client_ciphertexts[s][i].proof = "forged"
OpensOrBlames ==
  \A s \in Servers : Opened(s) =>
    (RevealPlaintext(s) /\ Intact(s)) \/ FindBadClients(s) # {} \/ Forged(s)

\* FindBadClients never names a client that only sent good ciphertexts: the two
\* lists of the bin stay in step.
HonestNotBlamed ==
  \A s \in Servers : \A i \in FindBadClients(s) :
    i \in DOMAIN _client_pubs[s] /\ \E k \in DOMAIN _client_ciphertexts[s] :
      /\ _client_ciphertexts[s][k].client = _client_pubs[s][i]
      /\ ~VerifyProof(_client_ciphertexts[s][k], _phase[s], _client_pubs[s][i])

\* Nor does bad_clients_out, where it points into the list: the client at that
\* position sent something bad (AddClientCiphertexts).
HonestNotReported ==
  LET in == reported.in
      Good(c) == VerifyProof(c, reported.at, c.client)
  IN \A i \in reported.bad \cap DOMAIN in : \E k \in DOMAIN in : in[k].client = in[i].client /\ ~Good(in[k])

=============================================================================
