--------------------------- MODULE SecureChannel ---------------------------
(***************************************************************************)
(* The encrypted channel of src/components/secure_channel: the exchange of *)
(* nonces and Diffie-Hellman keys that opens it, and the loop of each end, *)
(* which encrypts, decrypts and changes the keys while messages of both    *)
(* directions are under way.                                               *)
(*                                                                         *)
(* A private Diffie-Hellman key with its salt is an identifier <<s, n>>,   *)
(* the n-th that side s drew.  The symmetric key of a direction is         *)
(* determined by the two identifiers and by whose salt was used, which is  *)
(* all that derive_symmetric_key promises.  An encrypted message shows its *)
(* key, its nonce and its content; only a decryptor that has this key and  *)
(* expects this nonce opens it.  Random padding is left out.               *)
(***************************************************************************)
EXTENDS Integers, Sequences

CONSTANTS
  TicksToRekey,   \* ticks between two changes of the keys
  NonceMod,       \* nonces are counted modulo this (2^96 in the code)
  MaxRekeys       \* bound: changes of keys that a side starts

ASSUME RekeyAssumption ==
  /\ TicksToRekey \in Nat /\ MaxRekeys \in Nat
  /\ NonceMod \in Nat \ {0, 1}

Side == {"a", "b"}
Peer(s) == IF s = "a" THEN "b" ELSE "a"
None == "none"
NoKey == <<>>                              \* no private key
NoCipher == [key |-> NoKey, nonce |-> -1]  \* no decryptor

VARIABLES
  expected,  \* expected[s]: the identity s insists on, or "any"
  sc,        \* sc[s]: the state of end s
  wire,      \* wire[s]: what is on its way to s
  drawn      \* drawn[s]: number of private keys s has drawn

scVars == <<expected, sc, wire, drawn>>

\* Encryptor::new and Decryptor::new: both count from zero.
Cipher(key) == [key |-> key, nonce |-> 0]
Bump(c) == [c EXCEPT !.nonce = (@ + 1) % NonceMod]

\* derive_symmetric_key of the holder of private key x with the public key y.
SendKey(x, y) == [dh |-> {x, y}, salt |-> x]
RecvKey(x, y) == [dh |-> {x, y}, salt |-> y]

Fresh(s) == <<s, drawn[s] + 1>>
Draw(s) == drawn' = [drawn EXCEPT ![s] = @ + 1]

Unopened == [phase |-> "nonce", why |-> None, remote |-> None, dh |-> NoKey,
             sender |-> NoCipher, receiver |-> NoCipher, old |-> NoCipher,
             pending |-> NoKey, ticks |-> TicksToRekey]

Open(s) == sc[s].phase = "open"
Gone(s) == sc[s].phase \in {"closed", "dead"}
Put(w, s, m) == IF Gone(Peer(s)) THEN w ELSE [w EXCEPT ![Peer(s)] = Append(@, m)]
Take(w, s) == [w EXCEPT ![s] = Tail(@)]

\* The loop of s ends and drops its connection.
Close(s, why) ==
  /\ sc' = [sc EXCEPT ![s] = [Unopened EXCEPT !.phase = "closed", !.why = why]]
  /\ wire' = [wire EXCEPT ![s] = <<>>]


\* The end of the reader's stream: the other end is gone and nothing is left.
Ended(s) == wire[s] = <<>> /\ sc[Peer(s)].phase = "closed"

(***************************************************************************)
(* Opening the channel.                                                    *)
(***************************************************************************)
\* ScStateInitial::new: each side has sent its nonce and its public key.
NonceOf(s) == [t |-> "nonce", nonce |-> <<s, 0>>, pk |-> s]

\* One side has dialed and knows whom it expects; the other takes anyone.
SCInit ==
  /\ expected \in {[s \in Side |-> IF s = "a" THEN e ELSE "any"] : e \in {"b", "c"}}
  /\ sc = [s \in Side |-> Unopened]
  /\ wire = [s \in Side |-> <<NonceOf(Peer(s))>>]
  /\ drawn = [s \in Side |-> 0]

\* The nonce of the other side: its key is drawn, the nonce is signed and sent
\* back, unless the other side is not the expected one.
HandleExchangeRandNonce(s) ==
  /\ sc[s].phase = "nonce" /\ wire[s] # <<>>
  /\ LET m == Head(wire[s])
         dh == [t |-> "dh", dh |-> Fresh(s), nonce |-> m.nonce, sig |-> s]
     IN IF expected[s] \notin {"any", m.pk}
        THEN Close(s, "unexpected")
        ELSE /\ sc' = [sc EXCEPT ![s] = [@ EXCEPT !.phase = "dh", !.remote = m.pk, !.dh = Fresh(s)]]
             /\ wire' = Put(Take(wire, s), s, dh)
  /\ Draw(s)
  /\ UNCHANGED expected

\* Verify the nonce and the signature, derive the first keys.
HandleExchangeDh(s) ==
  /\ sc[s].phase = "dh" /\ wire[s] # <<>>
  /\ LET m == Head(wire[s])
     IN IF m.nonce # <<s, 0>> \/ m.sig # sc[s].remote
        THEN Close(s, "garbled")
        ELSE /\ sc' = [sc EXCEPT ![s] =
                  [@ EXCEPT !.phase = "open",
                            !.sender = Cipher(SendKey(sc[s].dh, m.dh)),
                            !.receiver = Cipher(RecvKey(sc[s].dh, m.dh))]]
             /\ wire' = Take(wire, s)
  /\ UNCHANGED <<expected, drawn>>

(***************************************************************************)
(* The loop.                                                               *)
(***************************************************************************)
Encrypt(ch, body) ==
  [t |-> "enc", key |-> ch.sender.key, nonce |-> ch.sender.nonce, body |-> body]

Opens(c, m) == c.nonce = m.nonce /\ c.key = m.key

\* The old receiver is tried first; the first success of the new one ends it.
TryDecrypt(ch, m) ==
  IF Opens(ch.old, m) THEN [ch EXCEPT !.old = Bump(@)]
  ELSE [ch EXCEPT !.receiver = Bump(@), !.old = NoCipher]

Decrypts(ch, m) == Opens(ch.old, m) \/ Opens(ch.receiver, m)

\* Two slips: the former receiver is forgotten, the change stays pending.
NewKeysAtOnce(ch, x, y) ==
  [ch EXCEPT !.receiver = Cipher(RecvKey(x, y)), !.sender = Cipher(SendKey(x, y)),
             !.pending = NoKey, !.ticks = TicksToRekey]
NewKeysStillPending(ch, x, y) ==
  [ch EXCEPT !.old = ch.receiver, !.receiver = Cipher(RecvKey(x, y)),
             !.sender = Cipher(SendKey(x, y)), !.ticks = TicksToRekey]

\* New keys from the private key x and the public key y: what was sent under
\* the former keys can still be read.
NewKeys(ch, x, y) ==
  [ch EXCEPT !.old = ch.receiver, !.receiver = Cipher(RecvKey(x, y)),
             !.sender = Cipher(SendKey(x, y)),
             !.pending = NoKey, !.ticks = TicksToRekey]

\* A Rekey that answers ours completes the change; one that comes unasked is
\* answered under the old key, and then the sender changes.
HandleIncomingRekey(s, m, ch) ==
  \/ /\ ch.pending # NoKey
     /\ sc' = [sc EXCEPT ![s] = NewKeys(ch, ch.pending, m.body.dh)]
     /\ wire' = Take(wire, s)
     /\ UNCHANGED drawn
  \/ /\ ch.pending = NoKey
     /\ sc' = [sc EXCEPT ![s] = NewKeys(ch, Fresh(s), m.body.dh)]
     /\ wire' = Put(Take(wire, s), s, Encrypt(ch, [t |-> "rekey", dh |-> Fresh(s)]))
     /\ Draw(s)

\* An incoming message that changes the keys, or that no decryptor opens.
ReaderRekey(s) ==
  /\ Open(s) /\ wire[s] # <<>>
  /\ LET m == Head(wire[s])
     IN IF ~Decrypts(sc[s], m)
        THEN Close(s, "garbled") /\ UNCHANGED drawn
        ELSE m.body.t = "rekey" /\ HandleIncomingRekey(s, m, TryDecrypt(sc[s], m))
  /\ UNCHANGED expected

\* An incoming message for the user, which takes it.
ReaderUser(s, body) ==
  /\ Open(s) /\ wire[s] # <<>>
  /\ LET m == Head(wire[s])
     IN /\ Decrypts(sc[s], m) /\ m.body = body /\ body.t # "rekey"
        /\ sc' = [sc EXCEPT ![s] = TryDecrypt(@, m)]
  /\ wire' = Take(wire, s)
  /\ UNCHANGED <<expected, drawn>>

\* A message of the user.
User(s, body) ==
  /\ Open(s)
  /\ sc' = [sc EXCEPT ![s].sender = Bump(@)]
  /\ wire' = Put(wire, s, Encrypt(sc[s], body))
  /\ UNCHANGED <<expected, drawn>>

\* create_rekey, when no change of the keys is pending.
CreateRekey(s) ==
  IF drawn[s] > MaxRekeys
  THEN UNCHANGED <<sc, wire, drawn>>
  ELSE /\ sc' = [sc EXCEPT ![s] =
            [@ EXCEPT !.pending = Fresh(s), !.sender = Bump(sc[s].sender),
                      !.ticks = TicksToRekey]]
       /\ wire' = Put(wire, s, Encrypt(sc[s], [t |-> "rekey", dh |-> Fresh(s)]))
       /\ Draw(s)

\* A tick: count down, or start a change of the keys unless one is pending.
SCTick(s) ==
  /\ Open(s)
  /\ \/ /\ sc[s].ticks > 0
        /\ sc' = [sc EXCEPT ![s].ticks = @ - 1]
        /\ UNCHANGED <<wire, drawn>>
     \/ /\ sc[s].ticks = 0 /\ sc[s].pending # NoKey   \* RekeyInProgress
        /\ UNCHANGED <<sc, wire, drawn>>
     \/ sc[s].ticks = 0 /\ sc[s].pending = NoKey /\ CreateRekey(s)
  /\ UNCHANGED expected

\* The reader has ended.
ReaderClosed(s) ==
  /\ ~Gone(s) /\ Ended(s)
  /\ Close(s, "ended")
  /\ UNCHANGED <<expected, drawn>>

\* The user has dropped its end.
UserClosed(s) ==
  /\ Open(s)
  /\ Close(s, "user")
  /\ UNCHANGED <<expected, drawn>>
============================================================================
