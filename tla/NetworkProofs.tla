---------------------------- MODULE NetworkProofs ----------------------------
(***************************************************************************)
(* Proofs about sockets on the event loop, for any sockets, descriptors,   *)
(* bounds and any operations the program may cancel.  If a program has one *)
(* request at a time on a socket, the reactor keeps the entry of each, for *)
(* the event it waits for (RequestsKept), and the entry of a descriptor is *)
(* for the socket that has it (OwnDescriptor).  Whatever the program does, *)
(* every byte that comes or goes is in exactly one place (BytesOnce).      *)
(* All of it is proved of CollectSpec, where the collector may take the    *)
(* record of a request; a behaviour of Spec is one where it does not.      *)
(***************************************************************************)
EXTENDS Network, SequencesExt, FiniteSetTheorems, SequenceTheorems, WellFoundedInduction, TLAPS

-----------------------------------------------------------------------------
(* Lists, and first positions.                                             *)

\* A set of positions that is not empty has a first one.
LEMMA FirstFacts ==
  ASSUME NEW T, T \subseteq Nat, T # {}
  PROVE  \E i \in T : \A j \in T : ~ (j < i)
<1>1. PICK i \in T : \A j \in T : ~ (<<j, i>> \in OpToRel(<, Nat))
  BY NatLessThanWellFounded, WFMin
<1> QED BY <1>1 DEF OpToRel

\* A list and what is put in front of it or taken from there.
LEMMA ConsFacts ==
  ASSUME NEW S, NEW q \in Seq(S), NEW x \in S
  PROVE  <<x>> \o q \in Seq(S) /\ ToSet(<<x>> \o q) = ToSet(q) \cup {x}
<1>1. PICK t : t = <<x>>
  OBVIOUS
<1>2. t \in Seq(S) /\ ToSet(t) = {x}
  BY <1>1 DEF ToSet
<1>3. Range(t \o q) = Range(t) \cup Range(q)
  BY <1>2, RangeConcatenation
<1>4. \A s : ToSet(s) = Range(s)
  BY DEF Range, ToSet
<1>5. t \o q \in Seq(S) /\ ToSet(t \o q) = ToSet(q) \cup {x}
  <2>1. t \o q \in Seq(S)
    BY <1>2
  <2>2. ToSet(t \o q) = ToSet(t) \cup ToSet(q)
    BY <1>3, <1>4
  <2> QED BY <1>2, <2>1, <2>2
<1> QED BY <1>1, <1>5

LEMMA TailFacts ==
  ASSUME NEW S, NEW q \in Seq(S), q # <<>>
  PROVE  /\ Tail(q) \in Seq(S) /\ Head(q) \in S
         /\ ToSet(q) = ToSet(Tail(q)) \cup {Head(q)}
<1>1. PICK x, t : x = Head(q) /\ t = Tail(q)
  OBVIOUS
<1>2. t \in Seq(S) /\ x \in S /\ q = <<x>> \o t
  BY <1>1, ConcatProperties, HeadTailProperties, SeqEqual
<1>3. ToSet(<<x>> \o t) = ToSet(t) \cup {x}
  BY <1>2, ConsFacts
<1>4. ToSet(q) = ToSet(t) \cup {x}
  BY <1>2, <1>3
<1> QED BY <1>1, <1>2, <1>4

-----------------------------------------------------------------------------
(* The inductive invariant.                                                *)

\* The operations that make a socket.
Making == {"accept", "upgrade", "connect"}

\* The end of the request is up to a handshake thread, or posted by it.
Handshake(r) == r \in shaking \/ \E i \in DOMAIN results : results[i].req = r

\* A request is one that its call makes.
WellFormed(x) ==
  /\ x.op \in Making => x.new \in Tcp \cup Tls
  /\ x.op = "accept" => x.sock \in Listener
  /\ x.op = "connect" => x.sock = x.new
  /\ x.op = "upgrade" => x.sock \in Tcp /\ x.new \in Tls
  /\ x.op \in {"read", "write"} => x.sock \notin Listener /\ x.size > 0
  /\ x.op = "read" /\ x.state = "pending" => x.moved = 0
  /\ x.op = "write" => x.moved <= x.size /\ (x.state = "completed" => x.moved = x.size)

\* The sockets that exist have descriptors of their own, and are read and written
\* only once the program has them.
SocketsSound ==
  /\ \A s \in Socket : fd[s] # None <=> stage[s] \in {"made", "open"}
  /\ \A s, c \in Socket : fd[s] = fd[c] /\ fd[s] # None => s = c
  /\ \A r \in DOMAIN reqs : reqs[r].op \in {"read", "write"} => stage[reqs[r].sock] \in {"open", "closed"}

\* A request that makes a socket has its record for itself, at the stage that
\* belongs to it; only such requests have handshakes.
MakingSound ==
  /\ \A r \in DOMAIN reqs : Handshake(r) => reqs[r].op \in Making
  /\ \A r \in DOMAIN reqs : Pending(r) /\ reqs[r].op \in Making =>
       /\ stage[reqs[r].new] = IF reqs[r].op = "accept" /\ ~ Handshake(r) THEN "unborn" ELSE "made"
       /\ \A q \in DOMAIN reqs : Pending(q) /\ reqs[q].op \in Making /\ reqs[q].new = reqs[r].new => q = r

\* An entry is for a request that waits; that of an accept or a connect is the
\* socket's, and the socket that connects is not anybody else's.
EntrySound(f) ==
  table[f] # None =>
    LET r == table[f].req
    IN  /\ r \in DOMAIN reqs /\ reqs[r].op \in {"accept", "connect", "read", "write"}
        /\ reqs[r].op \in {"accept", "connect"} => fd[reqs[r].sock] = f /\ ~ Handshake(r)
        /\ reqs[r].op = "connect" =>
             /\ stage[reqs[r].sock] = "made"
             /\ \A q \in DOMAIN reqs : Pending(q) /\ reqs[q].op \in Making /\ reqs[q].new = reqs[r].sock => q = r

\* What OpenSSL holds, and says, is of a TLS connection; what is there has come.
StreamsSound ==
  /\ \A s \in Socket \ Tls : net[s].held = 0 /\ net[s].talk = "none"
  /\ \A s \in Socket \ Listener : net[s].wire + net[s].held <= net[s].came

NetInv ==
  /\ TypeOK /\ (\A r \in DOMAIN reqs : WellFormed(reqs[r]))
  /\ SocketsSound /\ MakingSound /\ (\A f \in Fd : EntrySound(f)) /\ StreamsSound

\* One request at a time on a socket: it has its entry, or a handshake.
Single ==
  \A q, r \in DOMAIN reqs : Pending(q) /\ Pending(r) /\ reqs[q].sock = reqs[r].sock => q = r

KeptInv == NetInv /\ Single /\ RequestsKept /\ OwnDescriptor

\* Each byte is in one place.
BytesInv == NetInv /\ NothingLost /\ WrittenOnce

-----------------------------------------------------------------------------
(* A step of one request, on one socket and one entry at most.             *)

LEMMA NetFacts ==
  ASSUME NetInv
  PROVE  /\ fd \in [Socket -> Fd \cup {None}] /\ None \notin Fd /\ None \notin Socket
         /\ stage \in [Socket -> {"unborn", "made", "open", "closed"}]
         /\ table \in [Fd -> Entry \cup {None}]
         /\ reqs \in Seq(Request) /\ Len(reqs) \in Nat /\ Len(reqs) <= MaxRequests
         /\ DOMAIN reqs = 1 .. Len(reqs) /\ MaxRequests \in Nat
         /\ net \in [Socket -> Link]
         /\ \A r \in DOMAIN reqs :
              /\ reqs[r] \in Request /\ reqs[r].op \in Operation
              /\ reqs[r].sock \in Socket /\ reqs[r].new \in Socket
              /\ reqs[r].state \in Outcome \cup {"pending"} /\ reqs[r].moved \in Nat
<1>1. /\ fd \in [Socket -> Fd \cup {None}] /\ None \notin Fd /\ None \notin Socket
      /\ stage \in [Socket -> {"unborn", "made", "open", "closed"}]
      /\ table \in [Fd -> Entry \cup {None}]
      /\ reqs \in Seq(Request) /\ Len(reqs) <= MaxRequests /\ MaxRequests \in Nat
      /\ net \in [Socket -> Link]
  BY NetworkAssumption DEF NetInv, TypeOK
<1>2. Len(reqs) \in Nat /\ DOMAIN reqs = 1 .. Len(reqs) /\ \A r \in DOMAIN reqs : reqs[r] \in Request
  BY <1>1
<1>3. \A x \in Request : /\ x.op \in Operation /\ x.sock \in Socket /\ x.new \in Socket
                         /\ x.state \in Outcome \cup {"pending"} /\ x.moved \in Nat
  BY DEF Request
<1> QED BY <1>1, <1>2, <1>3

LEMMA HandshakeFacts == ASSUME NetInv, NEW r, Handshake(r) PROVE r \in DOMAIN reqs
<1>1. shaking \subseteq DOMAIN reqs /\ results \in Seq([req : DOMAIN reqs, ok : BOOLEAN])
  BY DEF NetInv, TypeOK
<1>2. \A D : results \in Seq(D) => \A i \in DOMAIN results : results[i] \in D
  OBVIOUS
<1>3. \A i \in DOMAIN results : results[i] \in [req : DOMAIN reqs, ok : BOOLEAN]
  BY <1>1, <1>2
<1> QED BY <1>1, <1>3 DEF Handshake

\* What becomes of request r, which may be new; no request acts if r is 0.
RequestStep(r) ==
  /\ reqs' \in Seq(Request) /\ Len(reqs') <= MaxRequests /\ DOMAIN reqs \subseteq DOMAIN reqs'
  /\ \A i \in DOMAIN reqs' : i # r => i \in DOMAIN reqs /\ reqs'[i] = reqs[i]
  /\ r \in DOMAIN reqs' => WellFormed(reqs'[r])
  /\ r \in DOMAIN reqs =>
       /\ reqs'[r].op = reqs[r].op /\ reqs'[r].sock = reqs[r].sock /\ reqs'[r].new = reqs[r].new
       /\ reqs'[r].state = "pending" => reqs[r].state = "pending"

\* The sockets of C change, and take no entry but that of g with them.
SocketStep(r, C, g) ==
  /\ fd' \in [Socket -> Fd \cup {None}]
  /\ stage' \in [Socket -> {"unborn", "made", "open", "closed"}]
  /\ \A t \in Socket \ C : fd'[t] = fd[t] /\ stage'[t] = stage[t]
  /\ \A t \in C : fd'[t] # None <=> stage'[t] \in {"made", "open"}
  /\ \A t \in C : stage[t] \in {"open", "closed"} => stage'[t] \in {"open", "closed"}
  /\ \A t, u \in Socket : fd'[t] = fd'[u] /\ fd'[t] # None => t = u
  /\ \A i \in DOMAIN reqs \ {r} :
       Pending(i) /\ reqs[i].op \in Making /\ reqs[i].new \in C => stage'[reqs[i].new] = stage[reqs[i].new]
  /\ \A f \in Fd \ {g} :
       table[f] # None /\ reqs[table[f].req].op \in {"accept", "connect"} /\ reqs[table[f].req].sock \in C =>
         /\ fd'[reqs[table[f].req].sock] = fd[reqs[table[f].req].sock]
         /\ reqs[table[f].req].op = "connect" => stage'[reqs[table[f].req].sock] = "made"

\* Only the entry of g changes, and goes to r or to nobody.
EntryStep(r, g) ==
  /\ table' \in [Fd -> Entry \cup {None}]
  /\ \A f \in Fd \ {g} : table'[f] = table[f]
  /\ g \in Fd /\ table'[g] # None =>
       /\ r \in DOMAIN reqs' /\ table'[g].req = r /\ fd'[reqs'[r].sock] = g
       /\ reqs'[r].op \in {"accept", "connect", "read", "write"}
       /\ reqs'[r].op \in {"accept", "connect"} => ~ Handshake(r)'
       /\ reqs'[r].op = "connect" =>
            /\ stage'[reqs'[r].sock] = "made"
            /\ \A i \in DOMAIN reqs \ {r} :
                 Pending(i) /\ reqs[i].op \in Making => reqs[i].new # reqs'[r].sock

\* Handshakes of other requests neither begin nor end, and r has no entry when its
\* own begins.
ShakingStep(r, g) ==
  /\ shaking' \subseteq DOMAIN reqs' /\ results' \in Seq([req : DOMAIN reqs', ok : BOOLEAN])
  /\ \A i : i # r => (Handshake(i)' <=> Handshake(i))
  /\ Handshake(r)' =>
       \/ Handshake(r)
       \/ reqs'[r].op \in Making /\ \A f \in Fd \ {g} : table[f] # None => table[f].req # r

\* If r waits for a socket of its own, nobody else has that.
WaitingStep(r, g) ==
  r \in DOMAIN reqs' =>
    /\ reqs'[r].op \in {"read", "write"} => stage'[reqs'[r].sock] \in {"open", "closed"}
    /\ reqs'[r].state = "pending" /\ reqs'[r].op \in Making =>
         /\ stage'[reqs'[r].new] = IF reqs'[r].op = "accept" /\ ~ Handshake(r)' THEN "unborn" ELSE "made"
         /\ \A i \in DOMAIN reqs \ {r} : Pending(i) /\ reqs[i].op \in Making => reqs[i].new # reqs'[r].new
         /\ \A f \in Fd \ {g} :
              table[f] # None /\ table[f].req # r /\ reqs[table[f].req].op = "connect" =>
                reqs[table[f].req].sock # reqs'[r].new

\* The rest of the state.
RestStep ==
  /\ net' \in [Socket -> Link] /\ StreamsSound'
  /\ posted' \subseteq DOMAIN reqs' /\ woken' \in BOOLEAN
  /\ phase' \in {"poll", "run", "dispatch"} /\ batch' \subseteq Event

\* A step of the system.
Frame(r, C, g) ==
  /\ RequestStep(r) /\ SocketStep(r, C, g) /\ EntryStep(r, g)
  /\ ShakingStep(r, g) /\ WaitingStep(r, g) /\ RestStep

LEMMA FrameStep ==
  ASSUME NetInv, NEW r \in Nat, NEW C \in SUBSET Socket, NEW g \in Fd \cup {None}, Frame(r, C, g)
  PROVE  NetInv'
<1>0. RequestStep(r) /\ SocketStep(r, C, g) /\ EntryStep(r, g) /\ ShakingStep(r, g) /\ WaitingStep(r, g) /\ RestStep
  BY DEF Frame
<1>1. /\ \A i \in DOMAIN reqs' : i # r => i \in DOMAIN reqs /\ reqs'[i] = reqs[i]
      /\ \A i \in DOMAIN reqs : i \in DOMAIN reqs'
      /\ \A i \in DOMAIN reqs : /\ reqs'[i].op = reqs[i].op /\ reqs'[i].sock = reqs[i].sock
                                /\ reqs'[i].new = reqs[i].new
      /\ \A i \in DOMAIN reqs : Pending(i)' => Pending(i)
      /\ \A i \in DOMAIN reqs \ {r} : Pending(i)' <=> Pending(i)
      /\ Pending(r)' => reqs'[r].state = "pending"
  BY <1>0 DEF RequestStep, Pending
<1>2. /\ \A i : i # r => (Handshake(i)' <=> Handshake(i))
      /\ \A i \in DOMAIN reqs' : Handshake(i)' => reqs'[i].op \in Making
  <2>1. \A i : Handshake(i) => i \in DOMAIN reqs /\ reqs[i].op \in Making
    BY HandshakeFacts DEF NetInv, MakingSound
  <2> QED BY <1>0, <1>1, <2>1 DEF ShakingStep
<1>3. /\ \A i \in DOMAIN reqs : reqs[i].sock \in Socket /\ reqs[i].new \in Socket
      /\ r \in DOMAIN reqs' => reqs'[r].sock \in Socket /\ reqs'[r].new \in Socket
      /\ fd \in [Socket -> Fd \cup {None}] /\ None \notin Fd
      /\ table \in [Fd -> Entry \cup {None}]
  <2>1. \A D : reqs' \in Seq(D) => \A i \in DOMAIN reqs' : reqs'[i] \in D
    OBVIOUS
  <2>2. \A i \in DOMAIN reqs' : reqs'[i] \in Request
    BY <1>0, <2>1 DEF RequestStep
  <2> QED BY <2>2, NetFacts DEF Request
<1>4. \A i \in DOMAIN reqs' : WellFormed(reqs'[i])
  BY <1>0, <1>1 DEF RequestStep, NetInv
<1>5. SocketsSound'
  <2>1. \A s \in Socket : fd'[s] # None <=> stage'[s] \in {"made", "open"}
    BY <1>0 DEF SocketStep, NetInv, SocketsSound
  <2>2. \A s, t \in Socket : fd'[s] = fd'[t] /\ fd'[s] # None => s = t
    BY <1>0 DEF SocketStep
  <2>3. ASSUME NEW i \in DOMAIN reqs', reqs'[i].op \in {"read", "write"}
        PROVE  stage'[reqs'[i].sock] \in {"open", "closed"}
    <3>1. CASE i = r
      BY <1>0, <2>3, <3>1 DEF WaitingStep
    <3>2. CASE i # r
      <4>1. i \in DOMAIN reqs /\ reqs'[i] = reqs[i] /\ stage[reqs[i].sock] \in {"open", "closed"}
        BY <1>1, <2>3, <3>2 DEF NetInv, SocketsSound
      <4> QED BY <1>0, <1>3, <4>1 DEF SocketStep
    <3> QED BY <3>1, <3>2
  <2> QED BY <2>1, <2>2, <2>3 DEF SocketsSound
<1>6. MakingSound'
  <2>1. \A i \in DOMAIN reqs' : Handshake(i)' => reqs'[i].op \in Making
    BY <1>2
  <2>2. ASSUME NEW i \in DOMAIN reqs', Pending(i)', reqs'[i].op \in Making
        PROVE  stage'[reqs'[i].new] = IF reqs'[i].op = "accept" /\ ~ Handshake(i)' THEN "unborn" ELSE "made"
    <3>1. CASE i = r
      BY <1>0, <1>1, <2>2, <3>1 DEF WaitingStep
    <3>2. CASE i # r
      <4>1. i \in DOMAIN reqs /\ reqs'[i] = reqs[i] /\ Pending(i) /\ (Handshake(i)' <=> Handshake(i))
        BY <1>1, <1>2, <2>2, <3>2
      <4>2. stage[reqs[i].new] = IF reqs[i].op = "accept" /\ ~ Handshake(i) THEN "unborn" ELSE "made"
        BY <2>2, <4>1 DEF NetInv, MakingSound
      <4>3. stage'[reqs[i].new] = stage[reqs[i].new]
        BY <1>0, <1>3, <2>2, <3>2, <4>1 DEF SocketStep
      <4> QED BY <4>1, <4>2, <4>3
    <3> QED BY <3>1, <3>2
  <2>3. ASSUME NEW i \in DOMAIN reqs', NEW j \in DOMAIN reqs', Pending(i)', Pending(j)',
               reqs'[i].op \in Making, reqs'[j].op \in Making, reqs'[i].new = reqs'[j].new
        PROVE  i = j
    <3>1. CASE i # r /\ j # r
      BY <1>1, <2>3, <3>1 DEF NetInv, MakingSound
    <3>2. CASE i = r /\ j # r
      BY <1>0, <1>1, <2>3, <3>2 DEF WaitingStep
    <3>3. CASE i # r /\ j = r
      BY <1>0, <1>1, <2>3, <3>3 DEF WaitingStep
    <3> QED BY <3>1, <3>2, <3>3
  <2> QED BY <2>1, <2>2, <2>3 DEF MakingSound
<1>7. ASSUME NEW f \in Fd PROVE EntrySound(f)'
  <2> SUFFICES ASSUME table'[f] # None,
                      NEW e, e = table'[f].req
               PROVE  /\ e \in DOMAIN reqs' /\ reqs'[e].op \in {"accept", "connect", "read", "write"}
                      /\ reqs'[e].op \in {"accept", "connect"} => fd'[reqs'[e].sock] = f /\ ~ Handshake(e)'
                      /\ reqs'[e].op = "connect" =>
                           /\ stage'[reqs'[e].sock] = "made"
                           /\ \A i \in DOMAIN reqs' :
                                Pending(i)' /\ reqs'[i].op \in Making /\ reqs'[i].new = reqs'[e].sock => i = e
    BY DEF EntrySound
  <2>1. CASE f = g
    <3>1. e = r /\ fd'[reqs'[r].sock] = g
      BY <1>0, <2>1 DEF EntryStep
    <3> QED BY <1>0, <1>1, <2>1, <3>1 DEF EntryStep
  <2>2. CASE f # g
    <3>1. /\ table'[f] = table[f] /\ e \in DOMAIN reqs
          /\ reqs[e].op \in {"accept", "connect", "read", "write"}
          /\ reqs[e].op \in {"accept", "connect"} => fd[reqs[e].sock] = f /\ ~ Handshake(e)
          /\ reqs[e].op = "connect" =>
               /\ stage[reqs[e].sock] = "made"
               /\ \A i \in DOMAIN reqs :
                    Pending(i) /\ reqs[i].op \in Making /\ reqs[i].new = reqs[e].sock => i = e
      BY <1>0, <1>1, <2>2 DEF EntryStep, NetInv, EntrySound
    <3>2. /\ e \in DOMAIN reqs' /\ reqs'[e].op = reqs[e].op /\ reqs'[e].sock = reqs[e].sock
          /\ reqs[e].sock \in Socket
      BY <1>1, <1>3, <3>1
    <3>3. ASSUME reqs[e].op \in {"accept", "connect"}
          PROVE  fd'[reqs[e].sock] = f /\ ~ Handshake(e)'
      <4>1. fd'[reqs[e].sock] = f
        BY <1>0, <1>3, <2>2, <3>1, <3>2, <3>3 DEF SocketStep
      <4>2. ~ Handshake(e)'
        <5>1. Handshake(r)' => Handshake(r) \/ \A h \in Fd \ {g} : table[h] # None => table[h].req # r
          BY <1>0 DEF ShakingStep
        <5> QED BY <1>2, <2>2, <3>1, <3>3, <5>1
      <4> QED BY <4>1, <4>2
    <3>4. ASSUME reqs[e].op = "connect"
          PROVE  /\ stage'[reqs[e].sock] = "made"
                 /\ \A i \in DOMAIN reqs' :
                      Pending(i)' /\ reqs'[i].op \in Making /\ reqs'[i].new = reqs[e].sock => i = e
      <4>1. stage'[reqs[e].sock] = "made"
        BY <1>0, <2>2, <3>1, <3>2, <3>4 DEF SocketStep
      <4>2. ASSUME NEW i \in DOMAIN reqs', Pending(i)', reqs'[i].op \in Making, reqs'[i].new = reqs[e].sock
            PROVE  i = e
        <5>1. CASE i # r
          BY <1>1, <3>1, <3>4, <4>2, <5>1
        <5>2. CASE i = r
          BY <1>0, <1>1, <2>2, <3>1, <3>4, <4>2, <5>2 DEF WaitingStep
        <5> QED BY <5>1, <5>2
      <4> QED BY <4>1, <4>2
    <3> QED BY <3>1, <3>2, <3>3, <3>4
  <2> QED BY <2>1, <2>2
<1>8. TypeOK'
  BY <1>0 DEF TypeOK, RequestStep, SocketStep, EntryStep, ShakingStep, RestStep
<1> QED BY <1>0, <1>4, <1>5, <1>6, <1>7, <1>8 DEF NetInv, RestStep

\* The handshakes stay as they are.
LEMMA StillShaking ==
  ASSUME NetInv, NEW r, NEW g, RequestStep(r), UNCHANGED <<shaking, results>>
  PROVE  ShakingStep(r, g) /\ \A i : Handshake(i)' <=> Handshake(i)
<1>1. shaking \subseteq DOMAIN reqs /\ results \in Seq([req : DOMAIN reqs, ok : BOOLEAN])
  BY DEF NetInv, TypeOK
<1>2. DOMAIN reqs \subseteq DOMAIN reqs'
  BY DEF RequestStep
<1>3. results' \in Seq([req : DOMAIN reqs', ok : BOOLEAN])
  <2>1. \A D, E : D \subseteq E /\ results \in Seq(D) => results \in Seq(E)
    OBVIOUS
  <2>2. [req : DOMAIN reqs, ok : BOOLEAN] \subseteq [req : DOMAIN reqs', ok : BOOLEAN]
    BY <1>2
  <2> QED BY <1>1, <2>1, <2>2
<1>4. \A i : Handshake(i)' <=> Handshake(i)
  BY DEF Handshake
<1> QED BY <1>1, <1>2, <1>3, <1>4 DEF ShakingStep

\* A handshake of r begins.
LEMMA StartShaking ==
  ASSUME NetInv, NEW r, NEW g, RequestStep(r), r \in DOMAIN reqs', reqs'[r].op \in Making,
         shaking' = shaking \cup {r}, UNCHANGED results,
         \A f \in Fd \ {g} : table[f] # None => table[f].req # r
  PROVE  ShakingStep(r, g) /\ Handshake(r)'
<1>1. shaking \subseteq DOMAIN reqs /\ results \in Seq([req : DOMAIN reqs, ok : BOOLEAN])
  BY DEF NetInv, TypeOK
<1>2. DOMAIN reqs \subseteq DOMAIN reqs'
  BY DEF RequestStep
<1>3. results' \in Seq([req : DOMAIN reqs', ok : BOOLEAN])
  <2>1. \A D, E : D \subseteq E /\ results \in Seq(D) => results \in Seq(E)
    OBVIOUS
  <2>2. [req : DOMAIN reqs, ok : BOOLEAN] \subseteq [req : DOMAIN reqs', ok : BOOLEAN]
    BY <1>2
  <2> QED BY <1>1, <2>1, <2>2
<1>4. Handshake(r)' /\ \A i : i # r => (Handshake(i)' <=> Handshake(i))
  BY DEF Handshake
<1> QED BY <1>1, <1>2, <1>3, <1>4 DEF ShakingStep

\* The sockets stay as they are.
LEMMA SameSockets ==
  ASSUME NetInv, NEW r, NEW g, UNCHANGED sockets
  PROVE  SocketStep(r, {}, g)
BY NetFacts DEF SocketStep, NetInv, SocketsSound, sockets

\* A step of a request that leaves the sockets and the handshakes alone.
LEMMA OwnStep ==
  ASSUME NetInv, NEW r \in Nat, NEW g \in Fd \cup {None}, NEW s \in Socket,
         RequestStep(r), RestStep, r \in DOMAIN reqs', s = reqs'[r].sock,
         UNCHANGED <<sockets, shaking, results>>,
         table' \in [Fd -> Entry \cup {None}], \A f \in Fd \ {g} : table'[f] = table[f],
         g \in Fd /\ table'[g] # None =>
           /\ table'[g].req = r /\ fd[s] = g /\ reqs'[r].op \in {"accept", "read", "write"}
           /\ reqs'[r].op = "accept" => ~ Handshake(r),
         reqs'[r].op \in {"read", "write"} => stage[s] \in {"open", "closed"},
         r \notin DOMAIN reqs /\ reqs'[r].state = "pending" /\ reqs'[r].op \in Making =>
           reqs'[r].op = "accept" /\ Fresh(reqs'[r].new) /\ ~ Handshake(r)
  PROVE  Frame(r, {}, g)
<1>1. ShakingStep(r, g) /\ (Handshake(r)' <=> Handshake(r))
  BY StillShaking
<1>2. SocketStep(r, {}, g) /\ fd' = fd /\ stage' = stage
  BY SameSockets DEF sockets
<1>3. EntryStep(r, g)
  BY <1>1, <1>2 DEF EntryStep
<1>5. WaitingStep(r, g)
  <2> SUFFICES ASSUME reqs'[r].state = "pending", reqs'[r].op \in Making
               PROVE  /\ stage[reqs'[r].new] = IF reqs'[r].op = "accept" /\ ~ Handshake(r) THEN "unborn" ELSE "made"
                      /\ \A i \in DOMAIN reqs \ {r} :
                           Pending(i) /\ reqs[i].op \in Making => reqs[i].new # reqs'[r].new
                      /\ \A f \in Fd \ {g} :
                           table[f] # None /\ table[f].req # r /\ reqs[table[f].req].op = "connect" =>
                             reqs[table[f].req].sock # reqs'[r].new
    BY <1>1, <1>2 DEF WaitingStep
  <2>1. CASE r \in DOMAIN reqs
    <3>1. Pending(r) /\ reqs[r].op = reqs'[r].op /\ reqs[r].new = reqs'[r].new
      BY <2>1 DEF RequestStep, Pending
    <3>2. \A f \in Fd : EntrySound(f)
      BY DEF NetInv
    <3> QED BY <2>1, <3>1, <3>2 DEF NetInv, MakingSound, EntrySound
  <2>2. CASE r \notin DOMAIN reqs
    <3>1. reqs'[r].op = "accept" /\ Fresh(reqs'[r].new) /\ ~ Handshake(r)
      BY <2>2
    <3>2. \A f \in Fd : table[f] # None /\ reqs[table[f].req].op = "connect" =>
            stage[reqs[table[f].req].sock] = "made"
      BY DEF NetInv, EntrySound
    <3> QED BY <3>1, <3>2 DEF Fresh
  <2> QED BY <2>1, <2>2
<1> QED BY <1>1, <1>2, <1>3, <1>5 DEF Frame

-----------------------------------------------------------------------------
(* A step that takes no entry from another request, of a program that has  *)
(* one request at a time on a socket.                                      *)

\* Nobody else waits for socket s.
Alone(r, s) == \A i \in DOMAIN reqs \ {r} : Pending(i) => reqs[i].sock # s

\* Request i has its entry.
HasEntry(i) ==
  /\ fd[reqs[i].sock] # None
  /\ table[fd[reqs[i].sock]] = [req |-> i, want |-> Wants(reqs[i].op, net[reqs[i].sock])]

\* What a request waits for is the same on k as on l.
SameWants(l, k) == \A op \in Operation : Wants(op, k) = Wants(op, l)

LEMMA WantsFacts ==
  /\ \A l, k : l.talk = k.talk => SameWants(l, k)
  /\ \A l, k : l.talk = "none" /\ k.talk = "asked" => SameWants(l, k)
  /\ \A l, k : l.talk = "awaited" /\ k.talk = "answered" => SameWants(l, k)
BY DEF SameWants, Wants

Keeps(r, C, g) ==
  /\ \A i \in DOMAIN reqs \ {r} : Pending(i) /\ ~ Handshake(i) =>
       /\ fd[reqs[i].sock] # g /\ fd'[reqs[i].sock] = fd[reqs[i].sock]
       /\ SameWants(net[reqs[i].sock], net'[reqs[i].sock])
  /\ r \in DOMAIN reqs' =>
       /\ r \notin DOMAIN reqs /\ Pending(r)' => Alone(r, reqs'[r].sock)
       /\ Pending(r)' => Handshake(r)' \/ HasEntry(r)'
  /\ \A f \in Fd \ {g} : table[f] # None /\ reqs[table[f].req].sock \in C /\ fd[reqs[table[f].req].sock] = f =>
       \/ fd'[reqs[table[f].req].sock] = f
       \/ /\ ~ Pending(table[f].req) /\ table[f].req # r
          /\ r \in DOMAIN reqs' /\ reqs'[r].op = "upgrade" /\ reqs'[r].sock = reqs[table[f].req].sock

LEMMA KeptStep ==
  ASSUME KeptInv, NEW r \in Nat, NEW C \in SUBSET Socket, NEW g \in Fd \cup {None},
         Frame(r, C, g), Keeps(r, C, g)
  PROVE  KeptInv'
<1>1. NetInv /\ NetInv' /\ RequestStep(r) /\ SocketStep(r, C, g) /\ EntryStep(r, g) /\ ShakingStep(r, g)
  BY FrameStep DEF KeptInv, Frame
<1>2. /\ \A i \in DOMAIN reqs' : i # r => i \in DOMAIN reqs /\ reqs'[i] = reqs[i]
      /\ \A i \in DOMAIN reqs : i \in DOMAIN reqs'
      /\ \A i \in DOMAIN reqs : reqs'[i].op = reqs[i].op /\ reqs'[i].sock = reqs[i].sock
      /\ \A i \in DOMAIN reqs : Pending(i)' => Pending(i)
      /\ \A i \in DOMAIN reqs : reqs[i].sock \in Socket
      /\ \A i : i # r => (Handshake(i)' <=> Handshake(i))
  BY <1>1, NetFacts DEF RequestStep, Pending, ShakingStep
<1>3. Single'
  <2> SUFFICES ASSUME NEW i \in DOMAIN reqs', NEW j \in DOMAIN reqs', Pending(i)', Pending(j)',
                      reqs'[i].sock = reqs'[j].sock
               PROVE  i = j
    BY DEF Single
  <2>1. CASE i \in DOMAIN reqs /\ j \in DOMAIN reqs
    BY <1>2, <2>1 DEF KeptInv, Single
  <2>2. CASE i \in DOMAIN reqs /\ j \notin DOMAIN reqs
    BY <1>2, <2>2 DEF Keeps, Alone
  <2>3. CASE i \notin DOMAIN reqs /\ j \in DOMAIN reqs
    BY <1>2, <2>3 DEF Keeps, Alone
  <2> QED BY <1>2, <2>1, <2>2, <2>3
<1>4. RequestsKept'
  <2> SUFFICES ASSUME NEW i \in DOMAIN reqs', Pending(i)' PROVE Handshake(i)' \/ HasEntry(i)'
    BY DEF RequestsKept, Handshake, HasEntry
  <2>1. CASE i = r
    BY <2>1 DEF Keeps
  <2>2. CASE i # r /\ Handshake(i)
    BY <1>2, <2>2
  <2>3. CASE i # r /\ ~ Handshake(i)
    <3>1. Pending(i) /\ HasEntry(i) /\ i \in DOMAIN reqs /\ reqs'[i] = reqs[i]
      BY <1>2, <2>3 DEF KeptInv, RequestsKept, Handshake, HasEntry
    <3>2. /\ fd[reqs[i].sock] # g /\ fd'[reqs[i].sock] = fd[reqs[i].sock]
          /\ SameWants(net[reqs[i].sock], net'[reqs[i].sock])
      BY <2>3, <3>1 DEF Keeps
    <3>3. fd[reqs[i].sock] \in Fd /\ reqs[i].op \in Operation
      BY <1>1, <1>2, <3>1, NetFacts DEF HasEntry
    <3>4. Wants(reqs[i].op, net'[reqs[i].sock]) = Wants(reqs[i].op, net[reqs[i].sock])
      BY <3>2, <3>3 DEF SameWants
    <3> QED BY <1>1, <3>1, <3>2, <3>3, <3>4 DEF EntryStep, HasEntry
  <2> QED BY <2>1, <2>2, <2>3
<1>5. OwnDescriptor'
  <2>1. \A s, t \in Socket : fd'[s] = fd'[t] /\ fd'[s] # None => s = t
    BY <1>1 DEF SocketStep
  <2>2. ASSUME NEW f \in Fd, table'[f] # None, NEW e, e = table'[f].req
        PROVE  \/ fd'[reqs'[e].sock] = f
               \/ ~ Pending(e)' /\ \E q \in DOMAIN reqs' : reqs'[q].op = "upgrade" /\ reqs'[q].sock = reqs'[e].sock
    <3>1. CASE f = g
      BY <1>1, <2>2, <3>1 DEF EntryStep
    <3>2. CASE f # g
      <4>1. /\ table[f] # None /\ e = table[f].req /\ e \in DOMAIN reqs
            /\ reqs'[e].sock = reqs[e].sock /\ reqs[e].sock \in Socket
        BY <1>1, <1>2, <2>2, <3>2 DEF EntryStep, NetInv, EntrySound
      <4>2. CASE fd[reqs[e].sock] = f
        <5>1. \/ fd'[reqs[e].sock] = f
              \/ /\ ~ Pending(e) /\ r \in DOMAIN reqs' /\ reqs'[r].op = "upgrade" /\ reqs'[r].sock = reqs[e].sock
          BY <1>1, <3>2, <4>1, <4>2 DEF SocketStep, Keeps
        <5> QED BY <1>2, <4>1, <5>1
      <4>3. CASE ~ Pending(e) /\ \E q \in DOMAIN reqs : reqs[q].op = "upgrade" /\ reqs[q].sock = reqs[e].sock
        BY <1>2, <4>1, <4>3
      <4> QED BY <4>1, <4>2, <4>3 DEF KeptInv, OwnDescriptor
    <3> QED BY <3>1, <3>2
  <2> QED BY <2>1, <2>2 DEF OwnDescriptor
<1> QED BY <1>1, <1>3, <1>4, <1>5 DEF KeptInv

\* Nobody else has the entry of a socket that one request waits for.
LEMMA AloneKeeps ==
  ASSUME KeptInv, NEW r, NEW s \in Socket, Alone(r, s), NEW i \in DOMAIN reqs \ {r}, Pending(i), ~ Handshake(i)
  PROVE  fd[reqs[i].sock] # None /\ fd[reqs[i].sock] # fd[s]
<1>1. fd[reqs[i].sock] # None /\ reqs[i].sock \in Socket /\ reqs[i].sock # s
  BY NetFacts DEF KeptInv, RequestsKept, Handshake, Alone
<1> QED BY <1>1 DEF KeptInv, NetInv, SocketsSound

\* Nor the entry of a request that is not its own.
LEMMA OthersKeep ==
  ASSUME KeptInv, NEW r, NEW g \in Fd, table[g] # None, table[g].req = r,
         NEW i \in DOMAIN reqs \ {r}, Pending(i), ~ Handshake(i)
  PROVE  fd[reqs[i].sock] # None /\ fd[reqs[i].sock] # g
<1>1. HasEntry(i)
  BY DEF KeptInv, RequestsKept, Handshake, HasEntry
<1> QED BY <1>1 DEF HasEntry

-----------------------------------------------------------------------------
(* Sums, and a step that moves no byte but where it says.                  *)

IsSum(g, w, n) == g = [i \in 0 .. n |-> IF i = 0 THEN 0 ELSE g[i - 1] + w[i]]

LEMMA SumFacts ==
  ASSUME NEW n \in Nat, NEW w, \A i \in 1 .. n : w[i] \in Nat, NEW g, IsSum(g, w, n)
  PROVE  /\ g[0] = 0 /\ \A i \in 1 .. n : g[i] = g[i - 1] + w[i]
         /\ \A i \in 0 .. n : g[i] \in Nat
<1>1. g[0] = 0 /\ \A i \in 1 .. n : g[i] = g[i - 1] + w[i]
  BY DEF IsSum
<1> DEFINE T == {i \in 0 .. n : g[i] \notin Nat}
<1>2. ASSUME T # {} PROVE FALSE
  <2>1. PICK i \in T : \A j \in T : ~ (j < i)
    <3>1. T \subseteq Nat
      OBVIOUS
    <3> HIDE DEF T
    <3> QED BY <1>2, <3>1, FirstFacts
  <2>2. i \in 1 .. n /\ i - 1 \in 0 .. n /\ i - 1 < i
    BY <1>1, <2>1
  <2>3. g[i - 1] \in Nat
    BY <2>1, <2>2
  <2> QED BY <1>1, <2>1, <2>2, <2>3
<1> QED BY <1>1, <1>2

LEMMA SumExists ==
  ASSUME NEW n \in Nat, NEW w
  PROVE  \E g : IsSum(g, w, n)
<1> DEFINE T == {m \in Nat : ~ \E g : IsSum(g, w, m)}
<1>1. ASSUME T # {} PROVE FALSE
  <2>1. PICK m \in T : \A j \in T : ~ (j < m)
    <3>1. T \subseteq Nat
      OBVIOUS
    <3> HIDE DEF T
    <3> QED BY <1>1, <3>1, FirstFacts
  <2>2. CASE m = 0
    <3>1. IsSum([i \in 0 .. 0 |-> 0], w, 0)
      BY DEF IsSum
    <3> QED BY <2>1, <2>2, <3>1
  <2>3. CASE m # 0
    <3>1. m - 1 \in Nat /\ m - 1 < m
      BY <2>1, <2>3
    <3>2. PICK h : IsSum(h, w, m - 1)
      BY <2>1, <3>1
    <3> DEFINE g == [i \in 0 .. m |-> IF i = m THEN h[m - 1] + w[m] ELSE h[i]]
               k == [i \in 0 .. m |-> IF i = 0 THEN 0 ELSE g[i - 1] + w[i]]
    <3>3. ASSUME NEW i \in 0 .. m PROVE g[i] = k[i]
      <4>1. CASE i = m
        BY <2>3, <3>1, <4>1
      <4>2. CASE i = 0
        BY <2>3, <3>1, <3>2, <4>2 DEF IsSum
      <4>3. CASE i # m /\ i # 0
        <5>1. i \in 0 .. m - 1 /\ i - 1 \in 0 .. m - 1 /\ i - 1 # m
          BY <3>1, <4>3
        <5>2. h[i] = h[i - 1] + w[i]
          BY <3>2, <4>3, <5>1 DEF IsSum
        <5> QED BY <4>3, <5>1, <5>2
      <4> QED BY <4>1, <4>2, <4>3
    <3>4. g = k
      BY <3>3
    <3>5. IsSum(g, w, m)
      BY <3>4 DEF IsSum
    <3> QED BY <2>1, <3>5
  <2> QED BY <2>2, <2>3
<1> QED BY <1>1

LEMMA TotalFacts ==
  ASSUME NEW n \in Nat, NEW w
  PROVE  \E g : IsSum(g, w, n) /\ Total(w, n) = g[n]
<1> DEFINE g == CHOOSE h : IsSum(h, w, n)
<1>1. IsSum(g, w, n)
  BY SumExists
<1>2. Total(w, n) = g[n]
  BY DEF Total, IsSum
<1> QED BY <1>1, <1>2

\* One of the summands changes, or one is added.
Summand(w, n, r) == IF r \in 1 .. n THEN w[r] ELSE 0

OneChange(w, n, v, m, r) ==
  /\ n \in Nat /\ m \in Nat /\ r \in Nat /\ (m = n \/ (m = n + 1 /\ r = m))
  /\ (\A i \in 1 .. n : w[i] \in Nat) /\ (\A i \in 1 .. m : v[i] \in Nat)
  /\ \A i \in 1 .. m : i # r => v[i] = w[i]

LEMMA TotalChange ==
  ASSUME NEW n, NEW m, NEW w, NEW v, NEW r, OneChange(w, n, v, m, r)
  PROVE  /\ Total(w, n) \in Nat /\ Total(v, m) \in Nat
         /\ Total(v, m) + Summand(w, n, r) = Total(w, n) + Summand(v, m, r)
<1> USE DEF OneChange
<1> DEFINE old == Summand(w, n, r)
           new == Summand(v, m, r)
<1> SUFFICES Total(w, n) \in Nat /\ Total(v, m) \in Nat /\ Total(v, m) + old = Total(w, n) + new
  OBVIOUS
<1>a. PICK g : IsSum(g, w, n) /\ Total(w, n) = g[n]
  BY TotalFacts
<1>b. PICK h : IsSum(h, v, m) /\ Total(v, m) = h[m]
  BY TotalFacts
<1>1. /\ g[0] = 0 /\ \A i \in 1 .. n : g[i] = g[i - 1] + w[i]
      /\ \A i \in 0 .. n : g[i] \in Nat
      /\ Total(w, n) = g[n]
  BY <1>a, SumFacts
<1>2. /\ h[0] = 0 /\ \A i \in 1 .. m : h[i] = h[i - 1] + v[i]
      /\ \A i \in 0 .. m : h[i] \in Nat
      /\ Total(v, m) = h[m]
  BY <1>b, SumFacts
<1>3. /\ old \in Nat /\ new \in Nat
      /\ old = (IF r \in 1 .. n THEN w[r] ELSE 0) /\ new = (IF r \in 1 .. m THEN v[r] ELSE 0)
  BY DEF Summand
<1> HIDE DEF old, new
<1> DEFINE Bad == {i \in 0 .. n : ~ IF 1 <= r /\ r <= i THEN h[i] + old = g[i] + new ELSE h[i] = g[i]}
<1>4. ASSUME Bad # {} PROVE FALSE
  <2>1. PICK i \in Bad : \A j \in Bad : ~ (j < i)
    <3>1. Bad \subseteq Nat
      OBVIOUS
    <3> HIDE DEF Bad
    <3> QED BY <1>4, <3>1, FirstFacts
  <2>2. i \in 0 .. n /\ ~ IF 1 <= r /\ r <= i THEN h[i] + old = g[i] + new ELSE h[i] = g[i]
    BY <2>1
  <2>3. i # 0
    BY <1>1, <1>2, <2>2
  <2>4. i - 1 \in 0 .. n /\ i \in 1 .. n /\ i \in 1 .. m /\ i - 1 < i /\ i - 1 \in 0 .. m
    BY <2>2, <2>3
  <2>5. IF 1 <= r /\ r <= i - 1 THEN h[i - 1] + old = g[i - 1] + new ELSE h[i - 1] = g[i - 1]
    BY <2>1, <2>4
  <2> HIDE DEF Bad
  <2>6. PICK a \in Nat, b \in Nat, x \in Nat, y \in Nat :
          a = g[i - 1] /\ b = h[i - 1] /\ x = w[i] /\ y = v[i] /\ g[i] = a + x /\ h[i] = b + y
    BY <1>1, <1>2, <2>4
  <2>7. CASE i = r
    <3>1. b = a /\ old = x /\ new = y
      BY <1>3, <2>4, <2>5, <2>6, <2>7
    <3>2. h[i] + old = g[i] + new
      BY <2>6, <3>1
    <3> QED BY <2>2, <2>4, <2>7, <3>2
  <2>8. CASE i # r
    <3>1. x = y
      BY <2>4, <2>6, <2>8
    <3>2. CASE 1 <= r /\ r <= i
      <4>1. b + old = a + new
        BY <2>4, <2>5, <2>6, <2>8, <3>2
      <4>2. h[i] + old = g[i] + new
        BY <1>3, <2>6, <3>1, <4>1
      <4> QED BY <2>2, <3>2, <4>2
    <3>3. CASE ~ (1 <= r /\ r <= i)
      <4>1. b = a
        BY <2>4, <2>5, <2>6, <3>3
      <4> QED BY <2>2, <2>6, <3>1, <3>3, <4>1
    <3> QED BY <3>2, <3>3
  <2> QED BY <2>7, <2>8
<1>5. IF 1 <= r /\ r <= n THEN h[n] + old = g[n] + new ELSE h[n] = g[n]
  BY <1>4
<1> HIDE DEF Bad
<1>6. CASE m = n
  <2>1. r \in 1 .. n <=> 1 <= r /\ r <= n
    OBVIOUS
  <2> QED BY <1>1, <1>2, <1>3, <1>5, <1>6, <2>1
<1>7. CASE m = n + 1 /\ r = m
  <2>1. old = 0 /\ new = v[m] /\ h[n] = g[n] /\ h[m] = h[n] + v[m] /\ v[m] \in Nat
    BY <1>2, <1>3, <1>5, <1>7
  <2> QED BY <1>1, <1>2, <1>7, <2>1
<1> QED BY <1>6, <1>7

\* What request r has moved, if it is there.
Moved(r, t, op, o) == IF r \in DOMAIN reqs THEN MovedBy(r, t, op, o) ELSE 0

LEMMA MovedFacts ==
  ASSUME NetInv, NEW t, NEW op, NEW o
  PROVE  \A i \in DOMAIN reqs : MovedBy(i, t, op, o) \in Nat
BY NetFacts DEF MovedBy

LEMMA SumStep ==
  ASSUME NetInv, NetInv', NEW r \in Nat, RequestStep(r), NEW t, NEW op, NEW o
  PROVE  /\ SumMoved(t, op, o) \in Nat /\ SumMoved(t, op, o)' \in Nat
         /\ SumMoved(t, op, o)' + Moved(r, t, op, o) = SumMoved(t, op, o) + Moved(r, t, op, o)'
<1> DEFINE w == [i \in DOMAIN reqs |-> MovedBy(i, t, op, o)]
           v == [i \in DOMAIN reqs' |-> MovedBy(i, t, op, o)']
<1>1. PICK n \in Nat : n = Len(reqs) /\ DOMAIN reqs = 1 .. n
  BY NetFacts
<1>2. PICK m \in Nat : m = Len(reqs') /\ DOMAIN reqs' = 1 .. m
  <2>1. reqs' \in Seq(Request)
    BY DEF RequestStep
  <2> QED BY <2>1
<1>3. m = n \/ (m = n + 1 /\ r = m)
  <2>1. /\ \A i \in 1 .. n : i \in 1 .. m
        /\ \A i \in 1 .. m : i # r => i \in 1 .. n
    BY <1>1, <1>2 DEF RequestStep
  <2>2. CASE m > n
    <3>1. m \in 1 .. m /\ m \notin 1 .. n /\ n + 1 \in 1 .. m /\ n + 1 \notin 1 .. n
      BY <2>2
    <3> QED BY <2>1, <3>1
  <2>3. CASE n > m
    <3>1. n \in 1 .. n /\ n \notin 1 .. m
      BY <2>3
    <3> QED BY <2>1, <3>1
  <2> QED BY <2>2, <2>3
<1>4. \A i \in 1 .. n : w[i] \in Nat
  BY <1>1, MovedFacts
<1>5. \A i \in 1 .. m : v[i] \in Nat
  <2>1. \A i \in DOMAIN reqs' : reqs'[i].moved \in Nat
    <3>1. \A D : reqs' \in Seq(D) => \A i \in DOMAIN reqs' : reqs'[i] \in D
      OBVIOUS
    <3>2. \A i \in DOMAIN reqs' : reqs'[i] \in Request
      BY <3>1 DEF RequestStep
    <3> QED BY <3>2 DEF Request
  <2> QED BY <1>2, <2>1 DEF MovedBy
<1>6. \A i \in 1 .. m : i # r => v[i] = w[i]
  BY <1>1, <1>2 DEF RequestStep, MovedBy
<1>7. Moved(r, t, op, o) = Summand(w, n, r)
  BY <1>1 DEF Moved, Summand
<1>8. Moved(r, t, op, o)' = Summand(v, m, r)
  BY <1>2 DEF Moved, Summand
<1>9. SumMoved(t, op, o) = Total(w, n) /\ SumMoved(t, op, o)' = Total(v, m)
  BY <1>1, <1>2 DEF SumMoved
<1> HIDE DEF w, v
<1>10. OneChange(w, n, v, m, r)
  BY <1>3, <1>4, <1>5, <1>6 DEF OneChange
<1>11. /\ Total(w, n) \in Nat /\ Total(v, m) \in Nat
       /\ Total(v, m) + Summand(w, n, r) = Total(w, n) + Summand(v, m, r)
  BY <1>10, TotalChange
<1> QED BY <1>7, <1>8, <1>9, <1>11

\* Every byte that comes, goes or moves is accounted for.
Bytes(r) ==
  \A t \in Socket :
    /\ t \notin Listener =>
         net'[t].came + net[t].wire + net[t].held + Moved(r, t, "read", {"completed"})
           = net[t].came + net'[t].wire + net'[t].held + Moved(r, t, "read", {"completed"})'
    /\ net'[t].out + Moved(r, t, "write", Outcome \cup {"pending"})
         = net[t].out + Moved(r, t, "write", Outcome \cup {"pending"})'

LEMMA BytesStep ==
  ASSUME BytesInv, NEW r \in Nat, NEW C \in SUBSET Socket, NEW g \in Fd \cup {None},
         Frame(r, C, g), Bytes(r)
  PROVE  BytesInv'
<1>1. NetInv /\ NetInv' /\ RequestStep(r)
  BY FrameStep DEF BytesInv, Frame
<1>2. /\ net \in [Socket -> Link] /\ net' \in [Socket -> Link]
      /\ \A l \in Link : l.came \in Nat /\ l.wire \in Nat /\ l.held \in Nat /\ l.out \in Nat
  BY <1>1, NetFacts DEF Frame, RestStep, Link
<1>3. ASSUME NEW t, NEW op, NEW o
      PROVE  Moved(r, t, op, o) \in Nat /\ Moved(r, t, op, o)' \in Nat
  <2>1. Moved(r, t, op, o) \in Nat
    BY <1>1, MovedFacts DEF Moved
  <2>2. \A D : reqs' \in Seq(D) => \A i \in DOMAIN reqs' : reqs'[i] \in D
    OBVIOUS
  <2>3. \A i \in DOMAIN reqs' : reqs'[i].moved \in Nat
    <3>1. \A i \in DOMAIN reqs' : reqs'[i] \in Request
      BY <1>1, <2>2 DEF RequestStep
    <3> QED BY <3>1 DEF Request
  <2> QED BY <2>1, <2>3 DEF Moved, MovedBy
<1>4. NothingLost'
  <2> SUFFICES ASSUME NEW t \in Socket \ Listener
               PROVE  net'[t].came = net'[t].wire + net'[t].held + SumMoved(t, "read", {"completed"})'
    BY DEF NothingLost
  <2>1. PICK S \in Nat, S1 \in Nat, x \in Nat, y \in Nat :
          /\ S = SumMoved(t, "read", {"completed"}) /\ S1 = SumMoved(t, "read", {"completed"})'
          /\ x = Moved(r, t, "read", {"completed"}) /\ y = Moved(r, t, "read", {"completed"})'
          /\ S1 + x = S + y
    BY <1>1, <1>3, SumStep
  <2>2. PICK a \in Nat, b \in Nat, c \in Nat : a = net[t].came /\ b = net[t].wire /\ c = net[t].held
    BY <1>2
  <2>3. PICK d \in Nat, e \in Nat, f \in Nat : d = net'[t].came /\ e = net'[t].wire /\ f = net'[t].held
    BY <1>2
  <2>4. a = b + c + S
    BY <2>1, <2>2 DEF BytesInv, NothingLost
  <2>5. d + b + c + x = a + e + f + y
    BY <2>1, <2>2, <2>3 DEF Bytes
  <2>6. d = e + f + S1
    BY <2>1, <2>4, <2>5
  <2> QED BY <2>1, <2>3, <2>6
<1>5. WrittenOnce'
  <2>1. ASSUME NEW t \in Socket PROVE net'[t].out = SumMoved(t, "write", Outcome \cup {"pending"})'
    <3>1. PICK S \in Nat, S1 \in Nat, x \in Nat, y \in Nat :
            /\ S = SumMoved(t, "write", Outcome \cup {"pending"})
            /\ S1 = SumMoved(t, "write", Outcome \cup {"pending"})'
            /\ x = Moved(r, t, "write", Outcome \cup {"pending"})
            /\ y = Moved(r, t, "write", Outcome \cup {"pending"})'
            /\ S1 + x = S + y
      BY <1>1, <1>3, SumStep
    <3>2. PICK a \in Nat, d \in Nat : a = net[t].out /\ d = net'[t].out
      BY <1>2
    <3>3. a = S /\ d + x = a + y
      BY <3>1, <3>2 DEF BytesInv, WrittenOnce, Bytes
    <3>4. d = S1
      BY <3>1, <3>3
    <3> QED BY <3>1, <3>2, <3>4
  <2>2. \A i \in DOMAIN reqs' :
          reqs'[i].op = "write" /\ reqs'[i].state = "completed" => reqs'[i].moved = reqs'[i].size
    BY <1>1 DEF NetInv, WellFormed
  <2> QED BY <2>1, <2>2 DEF WrittenOnce, Outcome
<1> QED BY <1>1, <1>4, <1>5 DEF BytesInv

-----------------------------------------------------------------------------
(* The request of a call or of a callback, and what becomes of it.         *)

\* q are the requests, and r among them, new if a call makes it.
Start(q, r) ==
  \/ q = reqs /\ r \in DOMAIN reqs
  \/ /\ r = Len(reqs) + 1 /\ Len(reqs) < MaxRequests
     /\ \E x \in Request : WellFormed(x) /\ x.state = "pending" /\ x.moved = 0 /\ q = Append(reqs, x)

LEMMA StartFacts ==
  ASSUME NetInv, NEW q, NEW r, Start(q, r)
  PROVE  /\ q \in Seq(Request) /\ Len(q) <= MaxRequests /\ Len(q) \in Nat /\ DOMAIN q = 1 .. Len(q)
         /\ r \in DOMAIN q /\ r \in Nat /\ q[r] \in Request /\ WellFormed(q[r])
         /\ IF r \in DOMAIN reqs THEN q = reqs ELSE DOMAIN q = DOMAIN reqs \cup {r} /\ q[r].state = "pending" /\ q[r].moved = 0
         /\ \A i \in DOMAIN reqs : q[i] = reqs[i]
         /\ \A i \in DOMAIN q : i # r => i \in DOMAIN reqs
         /\ r \notin DOMAIN reqs => ~ Handshake(r)
<1>1. /\ reqs \in Seq(Request) /\ Len(reqs) \in Nat /\ Len(reqs) <= MaxRequests
      /\ DOMAIN reqs = 1 .. Len(reqs) /\ MaxRequests \in Nat
      /\ \A i \in DOMAIN reqs : reqs[i] \in Request
      /\ \A i \in DOMAIN reqs : WellFormed(reqs[i])
      /\ r \notin DOMAIN reqs => ~ Handshake(r)
  BY NetFacts, HandshakeFacts DEF NetInv
<1>2. CASE q = reqs /\ r \in DOMAIN reqs
  BY <1>1, <1>2
<1>3. ASSUME r = Len(reqs) + 1, Len(reqs) < MaxRequests, NEW x \in Request,
             WellFormed(x), x.state = "pending", x.moved = 0, q = Append(reqs, x)
      PROVE  /\ q \in Seq(Request) /\ Len(q) <= MaxRequests /\ Len(q) \in Nat /\ DOMAIN q = 1 .. Len(q)
             /\ r \in DOMAIN q /\ r \in Nat /\ q[r] \in Request /\ WellFormed(q[r])
             /\ r \notin DOMAIN reqs /\ DOMAIN q = DOMAIN reqs \cup {r} /\ q[r].state = "pending" /\ q[r].moved = 0
             /\ \A i \in DOMAIN reqs : q[i] = reqs[i]
             /\ \A i \in DOMAIN q : i # r => i \in DOMAIN reqs
  <2>1. /\ q \in Seq(Request) /\ Len(q) = Len(reqs) + 1 /\ DOMAIN q = 1 .. Len(reqs) + 1
        /\ q[r] = x /\ \A i \in 1 .. Len(reqs) : q[i] = reqs[i]
    BY <1>1, <1>3
  <2> QED BY <1>1, <1>3, <2>1
<1> QED BY <1>1, <1>2, <1>3 DEF Start

\* It waits, and has perhaps moved something.
LEMMA KeepStep ==
  ASSUME NetInv, NEW q, NEW r, Start(q, r), reqs' = q
  PROVE  RequestStep(r) /\ r \in DOMAIN reqs'
BY StartFacts DEF RequestStep

\* Its record changes to x.
Changes(y, x) ==
  /\ x \in Request /\ WellFormed(x)
  /\ x.op = y.op /\ x.sock = y.sock /\ x.new = y.new
  /\ x.state = "pending" => y.state = "pending"

LEMMA PutStep ==
  ASSUME NetInv, NEW q, NEW r, Start(q, r), NEW x, Changes(q[r], x), reqs' = [q EXCEPT ![r] = x]
  PROVE  RequestStep(r) /\ r \in DOMAIN reqs' /\ reqs'[r] = x
<1>1. /\ q \in Seq(Request) /\ r \in DOMAIN q
      /\ Len(q) <= MaxRequests /\ Len(q) \in Nat /\ DOMAIN q = 1 .. Len(q)
      /\ IF r \in DOMAIN reqs THEN q = reqs ELSE DOMAIN q = DOMAIN reqs \cup {r} /\ q[r].state = "pending"
      /\ \A i \in DOMAIN reqs : q[i] = reqs[i]
  BY StartFacts
<1>2. /\ reqs' \in Seq(Request) /\ Len(reqs') = Len(q) /\ DOMAIN reqs' = DOMAIN q
      /\ reqs'[r] = x /\ \A i \in DOMAIN q \ {r} : reqs'[i] = q[i]
  BY <1>1 DEF Changes
<1> QED BY <1>1, <1>2 DEF RequestStep, Changes

\* It settles, if it has not.
LEMMA SettledStep ==
  ASSUME NetInv, NEW q, NEW r, Start(q, r), NEW o \in Outcome, reqs' = Settled(q, r, o),
         q[r].op = "write" /\ o = "completed" => q[r].moved = q[r].size
  PROVE  /\ RequestStep(r) /\ r \in DOMAIN reqs' /\ reqs'[r].state # "pending"
         /\ reqs'[r].op = q[r].op /\ reqs'[r].sock = q[r].sock /\ reqs'[r].new = q[r].new
         /\ reqs'[r].moved = q[r].moved /\ reqs'[r].size = q[r].size
         /\ reqs'[r].state = IF q[r].state = "pending" THEN o ELSE q[r].state
<1> DEFINE x == [q[r] EXCEPT !.state = IF @ = "pending" THEN o ELSE @]
<1>1. /\ q \in Seq(Request) /\ Len(q) <= MaxRequests /\ Len(q) \in Nat /\ DOMAIN q = 1 .. Len(q)
      /\ r \in DOMAIN q /\ q[r] \in Request /\ WellFormed(q[r])
      /\ IF r \in DOMAIN reqs THEN q = reqs ELSE DOMAIN q = DOMAIN reqs \cup {r} /\ q[r].state = "pending"
      /\ \A i \in DOMAIN reqs : q[i] = reqs[i]
  BY StartFacts
<1>2. reqs' = [q EXCEPT ![r] = x]
  BY DEF Settled
<1>3. /\ x \in Request /\ x.op = q[r].op /\ x.sock = q[r].sock /\ x.new = q[r].new
      /\ x.moved = q[r].moved /\ x.size = q[r].size
      /\ x.state = (IF q[r].state = "pending" THEN o ELSE q[r].state) /\ x.state # "pending"
  BY <1>1 DEF Request, Outcome
<1>4. WellFormed(x)
  BY <1>1, <1>3 DEF WellFormed
<1> HIDE DEF x
<1>5. Changes(q[r], x)
  BY <1>3, <1>4 DEF Changes
<1>6. RequestStep(r) /\ r \in DOMAIN reqs' /\ reqs'[r] = x
  BY <1>2, <1>5, PutStep
<1> QED BY <1>3, <1>6

\* What the reactor's table is then.
LEMMA TableStep ==
  ASSUME NetInv, NEW f \in Fd \cup {None}, NEW r \in 1 .. MaxRequests, NEW w \in {"read", "write"},
         \/ table' = table \/ table' = Del(f) \/ table' = Add(f, r, w)
  PROVE  /\ table' \in [Fd -> Entry \cup {None}] /\ \A h \in Fd \ {f} : table'[h] = table[h]
         /\ table' = Del(f) /\ f \in Fd => table'[f] = None
         /\ table' = Add(f, r, w) /\ f \in Fd => table'[f] = [req |-> r, want |-> w] /\ table'[f] # None
<1>1. table \in [Fd -> Entry \cup {None}] /\ [req |-> r, want |-> w] \in Entry
  BY NetFacts DEF Entry
<1>2. [req |-> r, want |-> w] # None
  BY <1>1, NetworkAssumption
<1> QED BY <1>1, <1>2 DEF Del, Add

LEMMA LeastFacts ==
  ASSUME NEW a \in Nat, NEW b \in Nat
  PROVE  Least(a, b) \in Nat /\ Least(a, b) <= a /\ Least(a, b) <= b /\ (Least(a, b) = a \/ Least(a, b) = b)
BY DEF Least

LEMMA LinkFacts ==
  ASSUME NEW l \in Link
  PROVE  /\ l.came \in Nat /\ l.wire \in Nat /\ l.held \in Nat /\ l.room \in 0 .. Capacity /\ l.out \in Nat
         /\ l.over \in {"no", "eof", "reset"} /\ l.dial \in {"no", "ok", "refused"}
         /\ l.talk \in {"none", "asked", "owed", "awaited", "answered"}
         /\ Capacity \in Nat
         /\ \A w, h \in Nat : [l EXCEPT !.wire = w, !.held = h] \in Link
         /\ \A m \in 0 .. Capacity, u \in Nat : [l EXCEPT !.room = m, !.out = u] \in Link
BY NetworkAssumption DEF Link

\* What came and what is there, and whether there is an exchange of messages, is
\* the same on k as on l.
Alike(l, k) ==
  /\ k \in Link /\ k.came = l.came /\ k.wire = l.wire /\ k.held = l.held /\ k.out = l.out
  /\ l.talk = "none" => k.talk = "none"

\* The protocol's messages move no data, and an answer that is there is read.
LEMMA TalkFacts ==
  ASSUME NEW l \in Link, NEW op, NEW k \in Talk(l, op)
  PROVE  Alike(l, k) /\ k.talk # "answered"
<1>1. CASE k = l /\ l.talk # "answered"
  BY <1>1 DEF Alike
<1>2. CASE k = [l EXCEPT !.talk = "none"]
  BY <1>2 DEF Alike, Link
<1>3. ASSUME l.talk # "none", k \in Spoken(l) PROVE Alike(l, k) /\ k.talk # "answered"
  <2>1. CASE k = [l EXCEPT !.talk = "owed"]
    BY <1>3, <2>1 DEF Alike, Link
  <2>2. ASSUME l.room > 0, NEW t \in {"none", "awaited"}, k = [l EXCEPT !.talk = t, !.room = @ - 1]
        PROVE  Alike(l, k) /\ k.talk # "answered"
    <3>1. l.room - 1 \in 0 .. Capacity
      BY <2>2, NetworkAssumption DEF Link
    <3> QED BY <1>3, <2>2, <3>1 DEF Alike, Link
  <2> QED BY <1>3, <2>1, <2>2 DEF Spoken
<1>4. (k = l /\ l.talk # "answered") \/ k = [l EXCEPT !.talk = "none"] \/ (l.talk # "none" /\ k \in Spoken(l))
  BY LinkFacts DEF Talk
<1> QED BY <1>1, <1>2, <1>3, <1>4

\* The link of s becomes l.
LEMMA PutLink ==
  ASSUME NetInv, NEW s \in Socket, NEW l \in Link, net' = [net EXCEPT ![s] = l],
         s \notin Tls => l.held = 0 /\ l.talk = "none", s \notin Listener => l.wire + l.held <= l.came
  PROVE  /\ net' \in [Socket -> Link] /\ StreamsSound' /\ net'[s] = l
         /\ \A t \in Socket \ {s} : net'[t] = net[t]
<1>1. net \in [Socket -> Link] /\ StreamsSound
  BY NetFacts DEF NetInv
<1>2. net' \in [Socket -> Link] /\ net'[s] = l /\ \A t \in Socket \ {s} : net'[t] = net[t]
  BY <1>1
<1> QED BY <1>1, <1>2 DEF StreamsSound

LEMMA PutAlike ==
  ASSUME NetInv, NEW s \in Socket, NEW l, Alike(net[s], l), net' = [net EXCEPT ![s] = l]
  PROVE  /\ net' \in [Socket -> Link] /\ StreamsSound' /\ net'[s] = l
         /\ \A t \in Socket \ {s} : net'[t] = net[t]
<1>1. l \in Link /\ (s \notin Tls => l.held = 0 /\ l.talk = "none") /\ (s \notin Listener => l.wire + l.held <= l.came)
  BY DEF Alike, NetInv, StreamsSound
<1> QED BY <1>1, PutLink

\* A read waits, or takes what there is, which is gone from the stream.
ReadEffect(q, r, s) ==
  /\ RequestStep(r) /\ r \in DOMAIN reqs' /\ net' \in [Socket -> Link] /\ StreamsSound'
  /\ reqs'[r].op = "read" /\ reqs'[r].sock = s /\ reqs'[r].new = q[r].new
  /\ \/ table' = Add(fd[s], r, Wants("read", net'[s]))
     \/ table' = Del(fd[s]) /\ reqs'[r].state # "pending"
  /\ reqs'[r].state \in {"pending", "completed", "failed"}
  /\ \A t \in Socket \ {s} : net'[t] = net[t]
  /\ net'[s].came = net[s].came /\ net'[s].out = net[s].out
  /\ net[s].wire + net[s].held = net'[s].wire + net'[s].held
       + (IF reqs'[r].state = "completed" THEN reqs'[r].moved ELSE 0)

LEMMA ReadFacts ==
  ASSUME NetInv, NEW q, NEW r, Start(q, r), q[r].op = "read", q[r].state = "pending",
         NEW s \in Socket, s = q[r].sock, TryRead(q, r)
  PROVE  ReadEffect(q, r, s)
<1>1. /\ q \in Seq(Request) /\ r \in DOMAIN q /\ q[r] \in Request /\ WellFormed(q[r])
      /\ net \in [Socket -> Link] /\ net[s] \in Link /\ StreamsSound
      /\ s \in Tcp \cup Tls \cup Udp /\ q[r].size \in Nat /\ q[r].size > 0 /\ q[r].moved = 0
  <2>1. /\ q \in Seq(Request) /\ r \in DOMAIN q /\ q[r] \in Request /\ WellFormed(q[r])
        /\ net \in [Socket -> Link] /\ net[s] \in Link /\ StreamsSound
    BY StartFacts, NetFacts DEF NetInv
  <2>2. s \in Tcp \cup Tls \cup Udp /\ q[r].size > 0 /\ q[r].moved = 0
    BY <2>1 DEF WellFormed, Socket
  <2>3. q[r].size \in Nat
    <3>1. \A x \in Request : x.size \in ReadSize \cup WriteSize \cup {0, 1}
      BY DEF Request
    <3>2. ReadSize \subseteq Nat /\ WriteSize \subseteq Nat /\ 0 \in Nat /\ 1 \in Nat
      BY NetworkAssumption
    <3>3. ReadSize \cup WriteSize \cup {0, 1} \subseteq Nat
      BY <3>2
    <3> QED BY <2>1, <3>1, <3>3
  <2> QED BY <2>1, <2>2, <2>3
<1>2. /\ net[s].wire \in Nat /\ net[s].held \in Nat
      /\ (s \notin Tls => net[s].held = 0 /\ net[s].talk = "none")
  BY <1>1, LinkFacts DEF StreamsSound
<1> DEFINE quiet == net[s].wire = 0 /\ net[s].held = 0
<1>3. ASSUME NEW l, Alike(net[s], l), net' = [net EXCEPT ![s] = l],
             table' = Add(fd[s], r, Wants("read", l)), reqs' = q
      PROVE  ReadEffect(q, r, s)
  <2>1. RequestStep(r) /\ r \in DOMAIN reqs' /\ reqs'[r] = q[r]
    BY <1>3, KeepStep
  <2>2. /\ net' \in [Socket -> Link] /\ StreamsSound' /\ net'[s] = l
        /\ \A t \in Socket \ {s} : net'[t] = net[t]
    BY <1>3, PutAlike
  <2> QED BY <1>1, <1>2, <1>3, <2>1, <2>2 DEF ReadEffect, Alike
<1>4. ASSUME NEW l, Alike(net[s], l), net' = [net EXCEPT ![s] = l],
             table' = Del(fd[s]), NEW o \in {"failed", "completed"}, reqs' = Settled(q, r, o)
      PROVE  ReadEffect(q, r, s)
  <2>1. /\ RequestStep(r) /\ r \in DOMAIN reqs' /\ reqs'[r].state = o /\ reqs'[r].moved = 0
        /\ reqs'[r].op = "read" /\ reqs'[r].sock = s /\ reqs'[r].new = q[r].new
    <3>1. o \in Outcome
      BY DEF Outcome
    <3> QED BY <1>1, <1>4, <3>1, SettledStep
  <2>2. /\ net' \in [Socket -> Link] /\ StreamsSound' /\ net'[s] = l
        /\ \A t \in Socket \ {s} : net'[t] = net[t]
    BY <1>4, PutAlike
  <2> QED BY <1>1, <1>2, <1>4, <2>1, <2>2 DEF ReadEffect, Alike
<1>5. ASSUME NEW l, Alike(net[s], l),
             ~ quiet, NEW k \in Pull(s, q[r].size),
             NEW n, n = Least(q[r].size, l.held + k),
             net' = [net EXCEPT ![s] = [l EXCEPT !.wire = @ - k, !.held = @ + k - n]],
             reqs' = [Settled(q, r, "completed") EXCEPT ![r].moved = n],
             table' = Del(fd[s])
      PROVE  ReadEffect(q, r, s)
  <2>0. l \in Link /\ l.wire = net[s].wire /\ l.held = net[s].held /\ l.came = net[s].came /\ l.out = net[s].out
        /\ (s \notin Tls => l.talk = "none")
    BY <1>2, <1>5 DEF Alike
  <2>1. k \in Nat /\ k <= net[s].wire /\ (s \notin Tls => k <= q[r].size)
    <3>1. \/ (s \in Tcp /\ s \notin Tls /\ s \notin Udp)
          \/ (s \in Udp /\ s \notin Tcp /\ s \notin Tls)
          \/ (s \in Tls /\ s \notin Tcp /\ s \notin Udp)
      BY <1>1, NetworkAssumption
    <3>2. CASE s \in Tcp
      <4>1. k = Least(q[r].size, net[s].wire)
        BY <1>5, <3>1, <3>2 DEF Pull
      <4> QED BY <1>1, <1>2, <4>1, LeastFacts
    <3>3. CASE s \in Udp
      <4>1. k = 1
        BY <1>5, <3>1, <3>3 DEF Pull
      <4>2. net[s].wire > 0
        BY <1>2, <1>5, <3>1, <3>3
      <4> QED BY <1>1, <1>2, <4>1, <4>2
    <3>4. CASE s \in Tls
      <4>1. k \in IF net[s].held > 0 THEN {0} ELSE 1 .. net[s].wire
        BY <1>5, <3>1, <3>4 DEF Pull
      <4> QED BY <1>2, <3>4, <4>1
    <3> QED BY <1>1, <3>2, <3>3, <3>4
  <2>2. n \in Nat /\ n <= net[s].held + k /\ (s \notin Tls => n = k)
    <3>1. net[s].held + k \in Nat
      BY <1>2, <2>1
    <3>2. n \in Nat /\ n <= net[s].held + k /\ (n = q[r].size \/ n = net[s].held + k) /\ n <= q[r].size
      BY <1>1, <1>5, <2>0, <3>1, LeastFacts
    <3> QED BY <1>1, <1>2, <2>1, <3>2
  <2> DEFINE x == [q[r] EXCEPT !.state = "completed", !.moved = n]
  <2>3. /\ reqs' = [q EXCEPT ![r] = x] /\ x \in Request /\ WellFormed(x)
        /\ x.op = "read" /\ x.sock = s /\ x.new = q[r].new /\ x.state = "completed" /\ x.moved = n
    <3>1. reqs' = [q EXCEPT ![r] = x]
      BY <1>1, <1>5 DEF Settled
    <3>2. /\ x \in Request /\ x.op = "read" /\ x.sock = s /\ x.new = q[r].new
          /\ x.state = "completed" /\ x.moved = n /\ x.size = q[r].size
      BY <1>1, <2>2 DEF Request, Outcome
    <3>3. WellFormed(x)
      BY <1>1, <3>2 DEF WellFormed
    <3> QED BY <3>1, <3>2, <3>3
  <2> HIDE DEF x
  <2>4. RequestStep(r) /\ r \in DOMAIN reqs' /\ reqs'[r] = x
    <3>1. Changes(q[r], x)
      BY <1>1, <2>3 DEF Changes
    <3>2. reqs' = [q EXCEPT ![r] = x]
      BY <2>3
    <3> QED BY <3>1, <3>2, PutStep
  <2>5. PICK w \in Nat, h \in Nat : w = net[s].wire - k /\ h = net[s].held + k - n
    BY <1>2, <2>1, <2>2
  <2> DEFINE m == [l EXCEPT !.wire = w, !.held = h]
  <2>6. net' = [net EXCEPT ![s] = m]
    BY <1>1, <1>5, <2>0, <2>5
  <2>7. /\ m \in Link /\ m.wire = w /\ m.held = h
        /\ m.came = net[s].came /\ m.out = net[s].out /\ m.talk = l.talk
    <3>1. m \in Link
      BY <2>0, LinkFacts
    <3> QED BY <2>0, <3>1 DEF Link
  <2> HIDE DEF m
  <2>9. /\ reqs'[r].op = "read" /\ reqs'[r].sock = s /\ reqs'[r].new = q[r].new
        /\ reqs'[r].state = "completed" /\ reqs'[r].moved = n
    BY <2>3, <2>4
  <2>10. net[s].wire + net[s].held = w + h + n
    <3>1. \A a, b, i, j \in Nat : w = a - i /\ h = b + i - j => a + b = w + h + j
      OBVIOUS
    <3> QED BY <1>2, <2>1, <2>2, <2>5, <3>1
  <2>8. /\ net' \in [Socket -> Link] /\ StreamsSound' /\ net'[s] = m
        /\ \A t \in Socket \ {s} : net'[t] = net[t]
    <3>1. s \notin Tls => h = 0
      BY <1>2, <2>2, <2>5
    <3>2. s \notin Listener => w + h <= net[s].came
      <4>1. PICK a \in Nat : a = net[s].came
        BY <1>1 DEF Link
      <4>2. s \notin Listener => net[s].wire + net[s].held <= a
        BY <1>1, <4>1 DEF StreamsSound
      <4>3. net[s].wire + net[s].held <= a => w + h <= a
        BY <1>2, <2>2, <2>10
      <4> QED BY <4>1, <4>2, <4>3
    <3> QED BY <2>0, <2>6, <2>7, <3>1, <3>2, PutLink
  <2>11. net[s].wire + net[s].held = net'[s].wire + net'[s].held + reqs'[r].moved
    BY <2>7, <2>8, <2>9, <2>10
  <2>12. /\ table' = Del(fd[s]) /\ reqs'[r].state # "pending"
         /\ reqs'[r].state \in {"pending", "completed", "failed"}
    BY <1>5, <2>9
  <2>13. net[s].wire + net[s].held = net'[s].wire + net'[s].held
           + (IF reqs'[r].state = "completed" THEN reqs'[r].moved ELSE 0)
    BY <2>9, <2>11
  <2>14. RequestStep(r) /\ r \in DOMAIN reqs'
    BY <2>4
  <2>15. net'[s].came = net[s].came /\ net'[s].out = net[s].out
    BY <2>7, <2>8
  <2> QED BY <2>8, <2>9, <2>12, <2>13, <2>14, <2>15 DEF ReadEffect
<1> HIDE DEF quiet
<1>6. CASE table' = Del(fd[s]) /\ reqs' = Settled(q, r, "failed") /\ UNCHANGED net
  <2>1. Alike(net[s], net[s]) /\ net' = [net EXCEPT ![s] = net[s]]
    BY <1>1, <1>6 DEF Alike
  <2> QED BY <1>4, <1>6, <2>1
<1> DEFINE Tried(l) ==
  \/ /\ l.talk = "owed"
     /\ table' = WaitFor(s, r, "write") /\ reqs' = q /\ net' = [net EXCEPT ![s] = l]
  \/ /\ l.talk = "awaited" \/ (quiet /\ l.talk # "owed")
     /\ l.over = "no"
     /\ table' = WaitFor(s, r, "read") /\ reqs' = q /\ net' = [net EXCEPT ![s] = l]
  \/ /\ l.talk = "awaited" \/ (quiet /\ l.talk # "owed")
     /\ l.over = "eof"
     /\ \E o \in {"completed", "failed"} :
          (o = "failed" => l.talk = "awaited") /\ reqs' = Settled(q, r, o)
     /\ table' = Del(fd[s]) /\ net' = [net EXCEPT ![s] = l]
  \/ /\ ~ quiet /\ l.talk \notin {"owed", "awaited"}
     /\ \E k \in Pull(s, q[r].size) :
          /\ net' = [net EXCEPT ![s] = [l EXCEPT !.wire = @ - k, !.held = @ + k - Least(q[r].size, l.held + k)]]
          /\ reqs' = [Settled(q, r, "completed") EXCEPT ![r].moved = Least(q[r].size, l.held + k)]
     /\ table' = Del(fd[s])
<1>7. \/ table' = Del(fd[s]) /\ reqs' = Settled(q, r, "failed") /\ UNCHANGED net
      \/ \E l \in Talk(net[s], "read") : Tried(l)
  BY DEF TryRead, quiet
<1>8. ASSUME NEW l \in Talk(net[s], "read"), Tried(l) PROVE ReadEffect(q, r, s)
  <2>1. Alike(net[s], l)
    BY <1>1, <1>8, TalkFacts
  <2>2. CASE /\ l.talk = "owed"
             /\ table' = WaitFor(s, r, "write") /\ reqs' = q /\ net' = [net EXCEPT ![s] = l]
    BY <1>3, <2>1, <2>2 DEF WaitFor, Wants
  <2>3. CASE /\ l.talk = "awaited" \/ l.talk # "owed"
             /\ table' = WaitFor(s, r, "read") /\ reqs' = q /\ net' = [net EXCEPT ![s] = l]
    BY <1>3, <2>1, <2>3 DEF WaitFor, Wants
  <2>4. CASE /\ \E o \in {"failed", "completed"} : reqs' = Settled(q, r, o)
             /\ table' = Del(fd[s]) /\ net' = [net EXCEPT ![s] = l]
    BY <1>4, <2>1, <2>4
  <2>5. CASE /\ ~ quiet /\ table' = Del(fd[s])
             /\ \E k \in Pull(s, q[r].size) :
                  /\ net' = [net EXCEPT ![s] = [l EXCEPT !.wire = @ - k, !.held = @ + k - Least(q[r].size, l.held + k)]]
                  /\ reqs' = [Settled(q, r, "completed") EXCEPT ![r].moved = Least(q[r].size, l.held + k)]
    <3>1. PICK k \in Pull(s, q[r].size) :
            /\ net' = [net EXCEPT ![s] = [l EXCEPT !.wire = @ - k, !.held = @ + k - Least(q[r].size, l.held + k)]]
            /\ reqs' = [Settled(q, r, "completed") EXCEPT ![r].moved = Least(q[r].size, l.held + k)]
      BY <2>5
    <3>2. PICK n : n = Least(q[r].size, l.held + k)
      OBVIOUS
    <3>3. /\ net' = [net EXCEPT ![s] = [l EXCEPT !.wire = @ - k, !.held = @ + k - n]]
          /\ reqs' = [Settled(q, r, "completed") EXCEPT ![r].moved = n]
      BY <3>1, <3>2
    <3> QED BY <1>5, <2>1, <2>5, <3>2, <3>3
  <2> QED BY <1>8, <2>2, <2>3, <2>4, <2>5
<1> QED BY <1>6, <1>7, <1>8

\* A write sends what there is room for, and waits if that is not all.
WriteEffect(q, r, s) ==
  /\ RequestStep(r) /\ r \in DOMAIN reqs' /\ net' \in [Socket -> Link] /\ StreamsSound'
  /\ reqs'[r].op = "write" /\ reqs'[r].sock = s /\ reqs'[r].new = q[r].new
  /\ \/ table' = Add(fd[s], r, Wants("write", net'[s]))
     \/ table' \in {table, Del(fd[s])} /\ reqs'[r].state # "pending"
  /\ \A t \in Socket \ {s} : net'[t] = net[t]
  /\ net'[s].came = net[s].came /\ net'[s].wire = net[s].wire /\ net'[s].held = net[s].held
  /\ net'[s].out + q[r].moved = net[s].out + reqs'[r].moved

LEMMA WriteFacts ==
  ASSUME NetInv, NEW q, NEW r, Start(q, r), q[r].op = "write", q[r].state = "pending",
         NEW s \in Socket, s = q[r].sock,
         NEW idle \in {table, Del(fd[s])}, TryWrite(q, r, idle)
  PROVE  WriteEffect(q, r, s)
<1>1. /\ q \in Seq(Request) /\ r \in DOMAIN q /\ q[r] \in Request /\ WellFormed(q[r])
      /\ net \in [Socket -> Link] /\ net[s] \in Link /\ StreamsSound
  BY StartFacts, NetFacts DEF NetInv
<1>2. PICK z \in Nat, m \in Nat : z = q[r].size /\ m = q[r].moved /\ m <= z
  <2>1. \A x \in Request : x.size \in ReadSize \cup WriteSize \cup {0, 1} /\ x.moved \in Nat
    BY DEF Request
  <2>2. ReadSize \cup WriteSize \cup {0, 1} \subseteq Nat
    <3>1. ReadSize \subseteq Nat /\ WriteSize \subseteq Nat /\ 0 \in Nat /\ 1 \in Nat
      BY NetworkAssumption
    <3> QED BY <3>1
  <2> QED BY <1>1, <2>1, <2>2 DEF WellFormed
<1>3. PICK out \in Nat : out = net[s].out
  BY <1>1, LinkFacts
<1>4. ASSUME NEW l, Alike(net[s], l), net' = [net EXCEPT ![s] = l],
             table' = Add(fd[s], r, Wants("write", l)), reqs' = q
      PROVE  WriteEffect(q, r, s)
  <2>1. RequestStep(r) /\ r \in DOMAIN reqs' /\ reqs'[r] = q[r]
    BY <1>4, KeepStep
  <2>2. /\ net' \in [Socket -> Link] /\ StreamsSound' /\ net'[s] = l
        /\ \A t \in Socket \ {s} : net'[t] = net[t]
    BY <1>4, PutAlike
  <2> QED BY <1>1, <1>4, <2>1, <2>2 DEF WriteEffect, Alike
<1>5. ASSUME NEW l, Alike(net[s], l), net' = [net EXCEPT ![s] = l],
             table' = idle, reqs' = Settled(q, r, "failed")
      PROVE  WriteEffect(q, r, s)
  <2>1. /\ RequestStep(r) /\ r \in DOMAIN reqs' /\ reqs'[r].state = "failed" /\ reqs'[r].moved = q[r].moved
        /\ reqs'[r].op = "write" /\ reqs'[r].sock = s /\ reqs'[r].new = q[r].new
    <3>1. "failed" \in Outcome /\ "failed" # "completed"
      BY DEF Outcome
    <3> QED BY <1>5, <3>1, SettledStep
  <2>2. /\ net' \in [Socket -> Link] /\ StreamsSound' /\ net'[s] = l
        /\ \A t \in Socket \ {s} : net'[t] = net[t]
    BY <1>5, PutAlike
  <2> QED BY <1>1, <1>5, <2>1, <2>2 DEF WriteEffect, Alike
<1>6. ASSUME NEW l \in Link, Alike(net[s], l), l.talk \notin {"owed", "awaited", "answered"},
             NEW n, n = Least(z - m, l.room),
             NEW p, p = [q EXCEPT ![r].moved = @ + n],
             net' = [net EXCEPT ![s] = [l EXCEPT !.room = @ - n, !.out = @ + n]],
             IF p[r].moved = p[r].size
             THEN table' = idle /\ reqs' = Settled(p, r, "completed")
             ELSE table' = Add(fd[s], r, "write") /\ reqs' = p
      PROVE  WriteEffect(q, r, s)
  <2>1. PICK room \in 0 .. Capacity : room = l.room /\ l.out = out
    BY <1>3, <1>6, LinkFacts DEF Alike
  <2>2. n \in Nat /\ n <= z - m /\ n <= room
    <3>1. z - m \in Nat /\ room \in Nat
      BY <1>2, NetworkAssumption
    <3> QED BY <1>6, <2>1, <3>1, LeastFacts
  <2> DEFINE k == [l EXCEPT !.room = room - n, !.out = out + n]
  <2>3. net' = [net EXCEPT ![s] = k]
    BY <1>1, <1>6, <2>1
  <2>4. room - n \in 0 .. Capacity /\ out + n \in Nat
    BY <1>3, <2>1, <2>2, NetworkAssumption
  <2>5. k \in Link
    BY <2>4, LinkFacts
  <2>6. /\ k.came = net[s].came /\ k.wire = net[s].wire /\ k.held = net[s].held /\ k.out = out + n
        /\ k.talk = l.talk
    BY <1>6 DEF Link, Alike
  <2> HIDE DEF k
  <2>7. /\ net' \in [Socket -> Link] /\ StreamsSound' /\ net'[s] = k
        /\ \A t \in Socket \ {s} : net'[t] = net[t]
    <3>1. /\ s \notin Tls => k.held = 0 /\ l.talk = "none"
          /\ s \notin Listener => k.wire + k.held <= k.came
      BY <1>1, <1>6, <2>6 DEF StreamsSound, Alike
    <3> QED BY <2>3, <2>5, <2>6, <3>1, PutLink
  <2>8. ASSUME NEW x, x \in Request, WellFormed(x), x.op = "write", x.sock = s, x.new = q[r].new,
               x.moved = m + n, reqs' = [q EXCEPT ![r] = x],
               \/ table' = Add(fd[s], r, "write")
               \/ table' = idle /\ x.state # "pending"
        PROVE  WriteEffect(q, r, s)
    <3>1. RequestStep(r) /\ r \in DOMAIN reqs' /\ reqs'[r] = x
      <4>1. Changes(q[r], x)
        BY <2>8 DEF Changes
      <4>2. reqs' = [q EXCEPT ![r] = x]
        BY <2>8
      <4> QED BY <4>1, <4>2, PutStep
    <3>2. out + n + m = out + (m + n)
      BY <1>2, <1>3, <2>2
    <3>3. Wants("write", net'[s]) = "write"
      BY <1>6, <2>6, <2>7 DEF Wants
    <3> QED BY <1>2, <1>3, <2>6, <2>7, <2>8, <3>1, <3>2, <3>3 DEF WriteEffect
  <2>9. /\ p[r] = [q[r] EXCEPT !.moved = @ + n] /\ p[r].size = z /\ p[r].moved = m + n
        /\ p[r].state = "pending"
    BY <1>1, <1>2, <1>6 DEF Request
  <2>10. CASE p[r].moved = p[r].size /\ table' = idle /\ reqs' = Settled(p, r, "completed")
    <3> DEFINE x == [q[r] EXCEPT !.state = "completed", !.moved = m + n]
    <3>1. /\ x \in Request /\ x.op = "write" /\ x.sock = s /\ x.new = q[r].new /\ x.moved = m + n
          /\ x.state = "completed" /\ x.size = z
      <4>1. m + n \in Nat /\ "completed" \in Outcome
        BY <2>2 DEF Outcome
      <4> QED BY <1>1, <1>2, <4>1 DEF Request
    <3>2. WellFormed(x)
      BY <1>1, <2>9, <2>10, <3>1 DEF WellFormed
    <3>3. reqs' = [q EXCEPT ![r] = x]
      BY <1>1, <1>2, <1>6, <2>9, <2>10 DEF Settled
    <3> HIDE DEF x
    <3> QED BY <2>8, <2>10, <3>1, <3>2, <3>3
  <2>11. CASE table' = Add(fd[s], r, "write") /\ reqs' = p
    <3> DEFINE x == [q[r] EXCEPT !.moved = m + n]
    <3>1. /\ x \in Request /\ x.op = "write" /\ x.sock = s /\ x.new = q[r].new /\ x.moved = m + n
          /\ x.state = "pending" /\ x.size = z
      <4>1. m + n \in Nat /\ q[r].state = "pending"
        BY <2>2
      <4> QED BY <1>1, <1>2, <4>1 DEF Request
    <3>2. m + n <= z
      BY <1>2, <2>2
    <3>3. WellFormed(x)
      BY <1>1, <3>1, <3>2 DEF WellFormed
    <3>4. reqs' = [q EXCEPT ![r] = x]
      BY <1>1, <1>2, <1>6, <2>11
    <3> HIDE DEF x
    <3> QED BY <2>8, <2>11, <3>1, <3>3, <3>4
  <2> QED BY <1>6, <2>10, <2>11
<1>7. CASE table' = idle /\ reqs' = Settled(q, r, "failed") /\ UNCHANGED net
  <2>1. Alike(net[s], net[s]) /\ net' = [net EXCEPT ![s] = net[s]]
    BY <1>1, <1>7 DEF Alike
  <2> QED BY <1>5, <1>7, <2>1
<1> DEFINE room(l) == Least(q[r].size - q[r].moved, l.room)
           Tried(l) ==
  \/ /\ l.talk = "owed"
     /\ table' = WaitFor(s, r, "write") /\ reqs' = q /\ net' = [net EXCEPT ![s] = l]
  \/ /\ l.talk = "awaited" /\ l.over = "no"
     /\ table' = WaitFor(s, r, "read") /\ reqs' = q /\ net' = [net EXCEPT ![s] = l]
  \/ /\ l.talk = "awaited" /\ l.over = "eof"
     /\ table' = idle /\ reqs' = Settled(q, r, "failed") /\ net' = [net EXCEPT ![s] = l]
  \/ /\ l.talk \notin {"owed", "awaited"}
     /\ net' = [net EXCEPT ![s] = [l EXCEPT !.room = @ - room(l), !.out = @ + room(l)]]
     /\ IF Sent(q, r, room(l))[r].moved = Sent(q, r, room(l))[r].size
        THEN table' = idle /\ reqs' = Settled(Sent(q, r, room(l)), r, "completed")
        ELSE table' = WaitFor(s, r, "write") /\ reqs' = Sent(q, r, room(l))
<1>8. \/ table' = idle /\ reqs' = Settled(q, r, "failed") /\ UNCHANGED net
      \/ \E l \in Talk(net[s], "write") : Tried(l)
  BY DEF TryWrite
<1>9. ASSUME NEW l \in Talk(net[s], "write"), Tried(l) PROVE WriteEffect(q, r, s)
  <2>1. Alike(net[s], l) /\ l \in Link /\ l.talk # "answered"
    BY <1>1, <1>9, TalkFacts DEF Alike
  <2>2. CASE /\ l.talk = "owed"
             /\ table' = WaitFor(s, r, "write") /\ reqs' = q /\ net' = [net EXCEPT ![s] = l]
    BY <1>4, <2>1, <2>2 DEF WaitFor, Wants
  <2>3. CASE /\ l.talk = "awaited"
             /\ table' = WaitFor(s, r, "read") /\ reqs' = q /\ net' = [net EXCEPT ![s] = l]
    BY <1>4, <2>1, <2>3 DEF WaitFor, Wants
  <2>4. CASE table' = idle /\ reqs' = Settled(q, r, "failed") /\ net' = [net EXCEPT ![s] = l]
    BY <1>5, <2>1, <2>4
  <2>5. CASE /\ l.talk \notin {"owed", "awaited"}
             /\ net' = [net EXCEPT ![s] = [l EXCEPT !.room = @ - room(l), !.out = @ + room(l)]]
             /\ IF Sent(q, r, room(l))[r].moved = Sent(q, r, room(l))[r].size
                THEN table' = idle /\ reqs' = Settled(Sent(q, r, room(l)), r, "completed")
                ELSE table' = WaitFor(s, r, "write") /\ reqs' = Sent(q, r, room(l))
    <3>1. PICK n : n = room(l) /\ n = Least(z - m, l.room)
      BY <1>2
    <3>2. PICK p : p = Sent(q, r, room(l)) /\ p = [q EXCEPT ![r].moved = @ + n]
      BY <3>1 DEF Sent
    <3> HIDE DEF room
    <3> QED BY <1>6, <2>1, <2>5, <3>1, <3>2 DEF WaitFor
  <2> QED BY <1>9, <2>2, <2>3, <2>4, <2>5
<1> QED BY <1>7, <1>8, <1>9

-----------------------------------------------------------------------------
(* What a step keeps of the three invariants.                              *)

Good(r, C, g) ==
  Frame(r, C, g) /\ (KeptInv /\ OneAtATime => Keeps(r, C, g)) /\ (BytesInv => Bytes(r))

GoodStep == \E r \in Nat, C \in SUBSET Socket, g \in Fd \cup {None} : Good(r, C, g)

\* What is left of the loop's own state.
LoopKept == posted' = posted /\ woken' \in BOOLEAN /\ phase' \in {"poll", "run", "dispatch"} /\ batch' \subseteq Event

LEMMA LoopFacts ==
  ASSUME NetInv, UNCHANGED <<posted, woken, loop>>
  PROVE  LoopKept
BY DEF NetInv, TypeOK, LoopKept, loop

LEMMA RestFacts ==
  ASSUME NetInv, NEW r, RequestStep(r), LoopKept, net' \in [Socket -> Link], StreamsSound'
  PROVE  RestStep
BY DEF NetInv, TypeOK, LoopKept, RestStep, RequestStep

LEMMA NoBytes ==
  ASSUME NetInv, NEW r, RequestStep(r), r \in DOMAIN reqs' => reqs'[r].op \notin {"read", "write"},
         \A t \in Socket :
           /\ net'[t].out = net[t].out
           /\ t \notin Listener =>
                net'[t].came = net[t].came /\ net'[t].wire = net[t].wire /\ net'[t].held = net[t].held
  PROVE  Bytes(r)
<1>1. \A t, o : Moved(r, t, "read", o) = 0 /\ Moved(r, t, "write", o) = 0
  BY DEF RequestStep, Moved, MovedBy
<1>2. \A t, o : Moved(r, t, "read", o)' = 0 /\ Moved(r, t, "write", o)' = 0
  BY DEF Moved, MovedBy
<1> QED BY <1>1, <1>2 DEF Bytes

\* The request settles, and nothing else happens.
LEMMA GiveUp ==
  ASSUME NetInv, NEW q, NEW r, Start(q, r), NEW o \in Outcome, reqs' = Settled(q, r, o),
         UNCHANGED <<sockets, table, net, shaking, results>>, LoopKept,
         q[r].op \in {"read", "write"} => o # "completed" /\ stage[q[r].sock] \in {"open", "closed"}
  PROVE  GoodStep
<1>1. /\ r \in DOMAIN q /\ r \in Nat /\ q[r] \in Request /\ q[r].sock \in Socket
      /\ IF r \in DOMAIN reqs THEN q = reqs ELSE q[r].state = "pending" /\ q[r].moved = 0
      /\ DOMAIN reqs \subseteq DOMAIN q
  <2>1. /\ r \in DOMAIN q /\ r \in Nat /\ q[r] \in Request
        /\ IF r \in DOMAIN reqs THEN q = reqs
           ELSE DOMAIN q = DOMAIN reqs \cup {r} /\ q[r].state = "pending" /\ q[r].moved = 0
    BY StartFacts
  <2> QED BY <2>1 DEF Request
<1>2. /\ RequestStep(r) /\ reqs'[r].state # "pending"
      /\ reqs'[r].op = q[r].op /\ reqs'[r].sock = q[r].sock /\ reqs'[r].moved = q[r].moved
      /\ reqs'[r].state = IF q[r].state = "pending" THEN o ELSE q[r].state
  BY SettledStep
<1>3. r \in DOMAIN reqs'
  BY <1>1 DEF Settled
<1>4. RestStep
  BY <1>2, RestFacts, NetFacts DEF NetInv, StreamsSound
<1>5. table \in [Fd -> Entry \cup {None}] /\ None \notin Fd
  BY NetFacts
<1>6. Frame(r, {}, None)
  BY <1>1, <1>2, <1>3, <1>4, <1>5, OwnStep
<1>7. ASSUME KeptInv PROVE Keeps(r, {}, None)
  <2>1. ~ Pending(r)'
    BY <1>2 DEF Pending
  <2>2. \A i \in DOMAIN reqs : Pending(i) /\ ~ Handshake(i) => fd[reqs[i].sock] # None
    BY <1>7 DEF KeptInv, RequestsKept, Handshake
  <2> QED BY <2>1, <2>2 DEF Keeps, sockets, SameWants
<1>8. Bytes(r)
  <2>1. ASSUME NEW t PROVE Moved(r, t, "read", {"completed"})' = Moved(r, t, "read", {"completed"})
    BY <1>1, <1>2, <1>3 DEF Moved, MovedBy
  <2>2. ASSUME NEW t PROVE Moved(r, t, "write", Outcome \cup {"pending"})' = Moved(r, t, "write", Outcome \cup {"pending"})
    <3>1. q[r].state \in Outcome \cup {"pending"} /\ reqs'[r].state \in Outcome \cup {"pending"}
      BY <1>1, <1>2 DEF Request
    <3> QED BY <1>1, <1>2, <1>3, <3>1 DEF Moved, MovedBy
  <2> QED BY <2>1, <2>2 DEF Bytes
<1> QED BY <1>1, <1>6, <1>7, <1>8 DEF GoodStep, Good

\* The request waits, or is done with its entry.
OwnEntry(r, s) ==
  \/ table' = Add(fd[s], r, Wants(reqs'[r].op, net'[s]))
  \/ table' \in {table, Del(fd[s])} /\ reqs'[r].state # "pending"

LEMMA OwnGood ==
  ASSUME NetInv, NEW r \in Nat, NEW s \in Socket, RequestStep(r), RestStep,
         r \in DOMAIN reqs', s = reqs'[r].sock,
         UNCHANGED <<sockets, shaking, results>>, OwnEntry(r, s),
         \A t \in Socket \ {s} : net'[t] = net[t],
         reqs'[r].op \in {"accept", "read", "write"},
         reqs'[r].op = "accept" => ~ Handshake(r),
         reqs'[r].op \in {"read", "write"} => stage[s] \in {"open", "closed"},
         r \notin DOMAIN reqs /\ reqs'[r].state = "pending" /\ reqs'[r].op = "accept" => Fresh(reqs'[r].new),
         KeptInv /\ OneAtATime => fd[s] # None /\ Alone(r, s),
         Bytes(r)
  PROVE  GoodStep
<1> DEFINE w == Wants(reqs'[r].op, net'[s])
<1>1. fd[s] \in Fd \cup {None} /\ None \notin Fd /\ w \in {"read", "write"} /\ r \in 1 .. MaxRequests
  <2>1. \A D : reqs' \in Seq(D) => DOMAIN reqs' = 1 .. Len(reqs') /\ Len(reqs') \in Nat
    OBVIOUS
  <2>2. r \in 1 .. Len(reqs') /\ Len(reqs') \in Nat /\ Len(reqs') <= MaxRequests
    BY <2>1 DEF RequestStep
  <2>3. w \in {"read", "write"}
    BY DEF Wants
  <2> QED BY <2>2, <2>3, NetFacts
<1>2. \/ table' = Add(fd[s], r, w)
      \/ table' \in {table, Del(fd[s])} /\ reqs'[r].state # "pending"
  BY DEF OwnEntry
<1> HIDE DEF w
<1>3. /\ table' \in [Fd -> Entry \cup {None}] /\ \A h \in Fd \ {fd[s]} : table'[h] = table[h]
      /\ table' = Del(fd[s]) /\ fd[s] \in Fd => table'[fd[s]] = None
      /\ table' = Add(fd[s], r, w) /\ fd[s] \in Fd => table'[fd[s]] = [req |-> r, want |-> w] /\ table'[fd[s]] # None
  BY <1>1, <1>2, TableStep
<1>4. PICK g \in Fd \cup {None} :
        /\ \A h \in Fd \ {g} : table'[h] = table[h]
        /\ g \in Fd /\ table'[g] # None => table'[g].req = r /\ fd[s] = g
        /\ g \in {None, fd[s]}
  <2>1. CASE table' = table
    BY <1>1, <2>1
  <2>2. CASE table' = Del(fd[s])
    BY <1>1, <1>3, <2>2
  <2>3. CASE table' = Add(fd[s], r, w)
    BY <1>1, <1>3, <2>3
  <2> QED BY <1>2, <2>1, <2>2, <2>3
<1>5. Frame(r, {}, g)
  BY <1>3, <1>4, OwnStep DEF Making
<1>6. ASSUME KeptInv, OneAtATime PROVE Keeps(r, {}, g)
  <2>1. fd[s] # None /\ Alone(r, s)
    BY <1>6
  <2>2. \A i \in DOMAIN reqs \ {r} : Pending(i) /\ ~ Handshake(i) =>
          fd[reqs[i].sock] # g /\ SameWants(net[reqs[i].sock], net'[reqs[i].sock])
    <3>1. \A i \in DOMAIN reqs \ {r} : Pending(i) => net'[reqs[i].sock] = net[reqs[i].sock]
      BY <2>1, NetFacts DEF Alone
    <3> QED BY <1>4, <1>6, <2>1, <3>1, AloneKeeps DEF SameWants
  <2>3. ASSUME Pending(r)' PROVE HasEntry(r)'
    <3>1. table' = Add(fd[s], r, w) /\ fd' = fd
      BY <1>2, <2>3 DEF Pending, sockets
    <3>2. table'[fd[s]] = [req |-> r, want |-> w]
      BY <1>1, <1>3, <2>1, <3>1
    <3> QED BY <2>1, <3>1, <3>2 DEF HasEntry, w
  <2> QED BY <2>1, <2>2, <2>3 DEF Keeps, sockets
<1> QED BY <1>4, <1>5, <1>6 DEF GoodStep, Good

\* Request r can make socket c with descriptor f, and gives its entry for g up.
CanMake(q, r, c, f, g) ==
  /\ Start(q, r) /\ q[r].op \in {"accept", "connect"} /\ q[r].new = c
  /\ q[r].op = "accept" => q[r].state = "pending" /\ stage[c] = "unborn"
  /\ stage[c] \in {"unborn", "made"} /\ fd[c] \in {None, f}
  /\ \A t \in Socket \ {c} : fd[t] # f
  /\ \A i \in DOMAIN reqs \ {r} : Pending(i) /\ reqs[i].op \in Making => reqs[i].new # c
  /\ \A h \in Fd \ {g} : table[h] # None =>
       table[h].req # r /\ (reqs[table[h].req].op = "connect" => reqs[table[h].req].sock # c)
  /\ table' \in [Fd -> Entry \cup {None}] /\ (\A h \in Fd \ {g} : table'[h] = table[h])
  /\ g \in Fd => table'[g] = None
  /\ KeptInv /\ OneAtATime =>
       /\ g = None \/ (g \in Fd /\ table[g] # None /\ table[g].req = r)
       /\ r \notin DOMAIN reqs => Alone(r, q[r].sock)

LEMMA EstablishedStep ==
  ASSUME NetInv, NEW q, NEW r, NEW c \in Tcp \cup Tls, NEW f \in Fd, NEW g \in Fd \cup {None},
         CanMake(q, r, c, f, g), Established(q, r, c, f), UNCHANGED results, LoopKept,
         net' \in [Socket -> Link], StreamsSound',
         \A t \in Socket \ Listener : net'[t] = net[t],
         \A t \in Socket : net'[t].out = net[t].out /\ net'[t].talk = net[t].talk
  PROVE  GoodStep
<1>1. /\ r \in DOMAIN q /\ r \in Nat /\ q[r] \in Request /\ WellFormed(q[r]) /\ Start(q, r)
      /\ q[r].op \in {"accept", "connect"} /\ q[r].new = c
      /\ c \in Socket /\ c \notin Listener /\ None \notin Fd
  <2>1. Start(q, r) /\ q[r].op \in {"accept", "connect"} /\ q[r].new = c
    BY DEF CanMake
  <2>2. r \in DOMAIN q /\ r \in Nat /\ q[r] \in Request /\ WellFormed(q[r])
    BY <2>1, StartFacts
  <2>3. c \in Socket /\ c \notin Listener /\ None \notin Fd
    BY NetworkAssumption DEF Socket
  <2> QED BY <2>1, <2>2, <2>3
<1>2. /\ RequestStep(r) /\ r \in DOMAIN reqs'
      /\ reqs'[r].op = q[r].op /\ reqs'[r].sock = q[r].sock /\ reqs'[r].new = c
      /\ \/ /\ reqs'[r].state # "pending" /\ shaking' = shaking
            /\ \/ /\ fd' = [fd EXCEPT ![c] = f] /\ stage' = [stage EXCEPT ![c] = "open"]
               \/ /\ fd' = [fd EXCEPT ![c] = f] /\ stage' = [stage EXCEPT ![c] = "made"]
               \/ /\ fd' = fd /\ stage' = [stage EXCEPT ![c] = "closed"] /\ q[r].op = "accept"
         \/ /\ shaking' = shaking \cup {r}
            /\ fd' = [fd EXCEPT ![c] = f] /\ stage' = [stage EXCEPT ![c] = "made"]
  <2>1. ASSUME NEW o \in {"completed", "failed"}, reqs' = Settled(q, r, o)
        PROVE  /\ RequestStep(r) /\ r \in DOMAIN reqs' /\ reqs'[r].state # "pending"
               /\ reqs'[r].op = q[r].op /\ reqs'[r].sock = q[r].sock /\ reqs'[r].new = c
    <3>1. o \in Outcome
      BY DEF Outcome
    <3>2. r \in DOMAIN reqs'
      BY <1>1, <2>1 DEF Settled
    <3>3. /\ RequestStep(r) /\ reqs'[r].state # "pending"
          /\ reqs'[r].op = q[r].op /\ reqs'[r].sock = q[r].sock /\ reqs'[r].new = q[r].new
      BY <1>1, <2>1, <3>1, SettledStep
    <3> QED BY <1>1, <3>2, <3>3
  <2>2. ASSUME reqs' = q PROVE RequestStep(r) /\ r \in DOMAIN reqs'
    BY <1>1, <2>2, KeepStep
  <2>3. \/ \E o \in {"completed", "failed"} :
             /\ reqs' = Settled(q, r, o) /\ shaking' = shaking
             /\ \/ /\ fd' = [fd EXCEPT ![c] = f] /\ stage' = [stage EXCEPT ![c] = "open"]
                \/ /\ fd' = [fd EXCEPT ![c] = f] /\ stage' = [stage EXCEPT ![c] = "made"]
                \/ /\ fd' = fd /\ stage' = [stage EXCEPT ![c] = "closed"] /\ q[r].op = "accept"
        \/ /\ reqs' = q /\ shaking' = shaking \cup {r}
           /\ fd' = [fd EXCEPT ![c] = f] /\ stage' = [stage EXCEPT ![c] = "made"]
    BY DEF Established
  <2>4. CASE \E o \in {"completed", "failed"} :
               /\ reqs' = Settled(q, r, o) /\ shaking' = shaking
               /\ \/ /\ fd' = [fd EXCEPT ![c] = f] /\ stage' = [stage EXCEPT ![c] = "open"]
                  \/ /\ fd' = [fd EXCEPT ![c] = f] /\ stage' = [stage EXCEPT ![c] = "made"]
                  \/ /\ fd' = fd /\ stage' = [stage EXCEPT ![c] = "closed"] /\ q[r].op = "accept"
    BY <2>1, <2>4
  <2>5. CASE /\ reqs' = q /\ shaking' = shaking \cup {r}
             /\ fd' = [fd EXCEPT ![c] = f] /\ stage' = [stage EXCEPT ![c] = "made"]
    BY <1>1, <2>2, <2>5
  <2> QED BY <2>3, <2>4, <2>5
<1>3. /\ fd \in [Socket -> Fd \cup {None}] /\ stage \in [Socket -> {"unborn", "made", "open", "closed"}]
      /\ \A t, u \in Socket : fd[t] = fd[u] /\ fd[t] # None => t = u
      /\ \A t \in Socket : fd[t] # None <=> stage[t] \in {"made", "open"}
  BY NetFacts DEF NetInv, SocketsSound
<1>4. /\ fd' \in [Socket -> Fd \cup {None}] /\ stage' \in [Socket -> {"unborn", "made", "open", "closed"}]
      /\ \A t \in Socket \ {c} : fd'[t] = fd[t] /\ stage'[t] = stage[t]
      /\ fd'[c] # None <=> stage'[c] \in {"made", "open"}
      /\ fd'[c] \in {f, fd[c]} /\ fd[c] \in {None, f}
  <2>1. fd[c] \in {None, f} /\ (q[r].op = "accept" => fd[c] = None)
    BY <1>1, <1>3 DEF CanMake
  <2>2. \/ fd' = [fd EXCEPT ![c] = f] /\ \E x \in {"open", "made"} : stage' = [stage EXCEPT ![c] = x]
        \/ fd' = fd /\ stage' = [stage EXCEPT ![c] = "closed"] /\ q[r].op = "accept"
    BY <1>2
  <2> QED BY <1>1, <1>3, <2>1, <2>2
<1>5. SocketStep(r, {c}, g)
  <2>1. \A t, u \in Socket : fd'[t] = fd'[u] /\ fd'[t] # None => t = u
    BY <1>3, <1>4 DEF CanMake
  <2>2. stage[c] \in {"unborn", "made"}
    BY DEF CanMake
  <2>3. \A i \in DOMAIN reqs \ {r} : Pending(i) /\ reqs[i].op \in Making => reqs[i].new # c
    BY DEF CanMake
  <2>4. \A h \in Fd \ {g} : table[h] # None /\ reqs[table[h].req].op \in {"accept", "connect"} =>
          reqs[table[h].req].sock # c
    <3>1. \A h \in Fd : table[h] # None /\ reqs[table[h].req].op = "accept" => reqs[table[h].req].sock \in Listener
      BY DEF NetInv, EntrySound, WellFormed
    <3> QED BY <1>1, <3>1 DEF CanMake
  <2> QED BY <1>4, <2>1, <2>2, <2>3, <2>4 DEF SocketStep
<1>6. EntryStep(r, g)
  BY DEF EntryStep, CanMake
<1>7. /\ ShakingStep(r, g)
      /\ reqs'[r].state = "pending" => Handshake(r)' /\ stage'[c] = "made"
  <2>1. CASE shaking' = shaking /\ reqs'[r].state # "pending"
    BY <1>2, <2>1, StillShaking
  <2>2. CASE shaking' = shaking \cup {r} /\ stage' = [stage EXCEPT ![c] = "made"]
    <3>1. reqs'[r].op \in Making /\ \A h \in Fd \ {g} : table[h] # None => table[h].req # r
      BY <1>1, <1>2 DEF CanMake, Making
    <3>2. ShakingStep(r, g) /\ Handshake(r)'
      BY <1>2, <2>2, <3>1, StartShaking
    <3> QED BY <1>1, <1>3, <2>2, <3>2
  <2> QED BY <1>2, <2>1, <2>2
<1>8. WaitingStep(r, g)
  <2>1. reqs'[r].op \in {"accept", "connect"} /\ reqs'[r].new = c
    BY <1>1, <1>2
  <2>2. /\ \A i \in DOMAIN reqs \ {r} : Pending(i) /\ reqs[i].op \in Making => reqs[i].new # c
        /\ \A h \in Fd \ {g} : table[h] # None /\ reqs[table[h].req].op = "connect" => reqs[table[h].req].sock # c
    BY DEF CanMake
  <2> QED BY <1>7, <2>1, <2>2 DEF WaitingStep
<1>9. RestStep
  BY <1>2, RestFacts
<1>10. Frame(r, {c}, g)
  BY <1>2, <1>5, <1>6, <1>7, <1>8, <1>9 DEF Frame
<1>11. ASSUME KeptInv, OneAtATime PROVE Keeps(r, {c}, g)
  <2>1. g = None \/ (g \in Fd /\ table[g] # None /\ table[g].req = r)
    BY <1>11 DEF CanMake
  <2>2. ASSUME NEW i \in DOMAIN reqs \ {r}, Pending(i), ~ Handshake(i)
        PROVE  /\ fd[reqs[i].sock] # g /\ fd'[reqs[i].sock] = fd[reqs[i].sock]
               /\ SameWants(net[reqs[i].sock], net'[reqs[i].sock])
    <3>1. fd[reqs[i].sock] # None /\ reqs[i].sock \in Socket
      BY <1>11, <2>2, NetFacts DEF KeptInv, RequestsKept, Handshake
    <3>2. fd[reqs[i].sock] # g
      BY <1>11, <2>1, <2>2, <3>1, OthersKeep
    <3>3. SameWants(net[reqs[i].sock], net'[reqs[i].sock])
      BY <3>1, WantsFacts
    <3> QED BY <1>4, <3>1, <3>2, <3>3
  <2>3. r \in DOMAIN reqs' =>
          /\ r \notin DOMAIN reqs /\ Pending(r)' => Alone(r, reqs'[r].sock)
          /\ Pending(r)' => Handshake(r)' \/ HasEntry(r)'
    BY <1>2, <1>7, <1>11 DEF CanMake, Pending
  <2>4. \A h \in Fd \ {g} : table[h] # None /\ reqs[table[h].req].sock \in {c} /\ fd[reqs[table[h].req].sock] = h =>
          fd'[reqs[table[h].req].sock] = h
    BY <1>1, <1>4
  <2> QED BY <2>2, <2>3, <2>4 DEF Keeps
<1>12. Bytes(r)
  BY <1>1, <1>2, NoBytes
<1>13. {c} \in SUBSET Socket
  BY <1>1
<1> QED BY <1>1, <1>10, <1>11, <1>12, <1>13 DEF GoodStep, Good

LEMMA ReadGood ==
  ASSUME NetInv, NEW q, NEW r, NEW s \in Socket, Start(q, r), s = q[r].sock, q[r].state = "pending",
         ReadEffect(q, r, s), UNCHANGED <<sockets, shaking, results>>, LoopKept,
         stage[s] \in {"open", "closed"},
         KeptInv /\ OneAtATime => fd[s] # None /\ Alone(r, s)
  PROVE  GoodStep
<1>1. /\ RequestStep(r) /\ net' \in [Socket -> Link] /\ StreamsSound'
      /\ reqs'[r].op = "read" /\ reqs'[r].sock = s
      /\ \/ table' = Add(fd[s], r, Wants("read", net'[s]))
         \/ table' = Del(fd[s]) /\ reqs'[r].state # "pending"
      /\ \A t \in Socket \ {s} : net'[t] = net[t]
      /\ net'[s].came = net[s].came /\ net'[s].out = net[s].out
      /\ net[s].wire + net[s].held = net'[s].wire + net'[s].held
           + (IF reqs'[r].state = "completed" THEN reqs'[r].moved ELSE 0)
  BY DEF ReadEffect
<1>2. /\ r \in Nat /\ r \in DOMAIN reqs'
      /\ IF r \in DOMAIN reqs THEN reqs[r].state = "pending" /\ reqs[r].op = "read" /\ reqs[r].sock = s
         ELSE DOMAIN reqs' = DOMAIN reqs \cup {r}
  <2>1. r \in Nat /\ r \in DOMAIN q /\ (r \in DOMAIN reqs => q = reqs)
    BY StartFacts
  <2>2. r \in DOMAIN reqs => reqs'[r].op = reqs[r].op /\ r \in DOMAIN reqs'
    BY <1>1 DEF RequestStep
  <2>3. r \in DOMAIN reqs'
    BY DEF ReadEffect
  <2>4. DOMAIN reqs' \subseteq DOMAIN reqs \cup {r} /\ DOMAIN reqs \subseteq DOMAIN reqs'
    BY <1>1 DEF RequestStep
  <2> QED BY <1>1, <2>1, <2>2, <2>3, <2>4
<1>3. /\ net \in [Socket -> Link]
      /\ \A l \in Link : l.came \in Nat /\ l.wire \in Nat /\ l.held \in Nat /\ l.out \in Nat
  BY NetFacts DEF Link
<1>4. Bytes(r)
  <2>1. \A t : /\ Moved(r, t, "read", {"completed"}) = 0
               /\ Moved(r, t, "write", Outcome \cup {"pending"}) = 0
    BY <1>2 DEF Moved, MovedBy
  <2>2. \A t : /\ Moved(r, t, "read", {"completed"})' =
                    IF t = s /\ reqs'[r].state = "completed" THEN reqs'[r].moved ELSE 0
               /\ Moved(r, t, "write", Outcome \cup {"pending"})' = 0
    BY <1>1, <1>2 DEF Moved, MovedBy
  <2>3. ASSUME NEW t \in Socket
        PROVE  /\ net'[t].came + net[t].wire + net[t].held + 0
                    = net[t].came + net'[t].wire + net'[t].held
                        + (IF t = s /\ reqs'[r].state = "completed" THEN reqs'[r].moved ELSE 0)
               /\ net'[t].out + 0 = net[t].out + 0
    <3>1. CASE t = s
      <4>1. PICK a \in Nat, w \in Nat, h \in Nat, b \in Nat, x \in Nat, y \in Nat :
              /\ a = net[s].came /\ w = net[s].wire /\ h = net[s].held
              /\ b = net'[s].came /\ x = net'[s].wire /\ y = net'[s].held
        BY <1>1, <1>3
      <4>2. PICK m : m = IF reqs'[r].state = "completed" THEN reqs'[r].moved ELSE 0
        OBVIOUS
      <4>3. m \in Nat
        <5>1. \A D : reqs' \in Seq(D) => \A i \in DOMAIN reqs' : reqs'[i] \in D
          OBVIOUS
        <5>2. reqs'[r] \in Request
          BY <1>1, <1>2, <5>1 DEF RequestStep
        <5> QED BY <4>2, <5>2 DEF Request
      <4>4. w + h = x + y + m /\ a = b
        BY <1>1, <4>1, <4>2
      <4>5. b + w + h + 0 = a + x + y + m
        BY <4>1, <4>3, <4>4
      <4> QED BY <1>1, <3>1, <4>1, <4>2, <4>5
    <3>2. CASE t # s
      BY <1>1, <1>3, <3>2
    <3> QED BY <3>1, <3>2
  <2> QED BY <2>1, <2>2, <2>3 DEF Bytes
<1>5. RestStep
  BY <1>1, RestFacts
<1>6. OwnEntry(r, s)
  BY <1>1 DEF OwnEntry
<1>7. reqs'[r].op \in {"accept", "read", "write"} /\ reqs'[r].op # "accept"
  BY <1>1
<1> QED BY <1>1, <1>2, <1>4, <1>5, <1>6, <1>7, OwnGood

LEMMA WriteGood ==
  ASSUME NetInv, NEW q, NEW r, NEW s \in Socket, Start(q, r), s = q[r].sock, q[r].state = "pending",
         WriteEffect(q, r, s), UNCHANGED <<sockets, shaking, results>>, LoopKept,
         stage[s] \in {"open", "closed"},
         KeptInv /\ OneAtATime => fd[s] # None /\ Alone(r, s)
  PROVE  GoodStep
<1>1. /\ RequestStep(r) /\ net' \in [Socket -> Link] /\ StreamsSound'
      /\ reqs'[r].op = "write" /\ reqs'[r].sock = s
      /\ \/ table' = Add(fd[s], r, Wants("write", net'[s]))
         \/ table' \in {table, Del(fd[s])} /\ reqs'[r].state # "pending"
      /\ \A t \in Socket \ {s} : net'[t] = net[t]
      /\ net'[s].came = net[s].came /\ net'[s].wire = net[s].wire /\ net'[s].held = net[s].held
      /\ net'[s].out + q[r].moved = net[s].out + reqs'[r].moved
  BY DEF WriteEffect
<1>2. /\ r \in Nat /\ r \in DOMAIN reqs'
      /\ r \in DOMAIN reqs => q = reqs /\ reqs[r].op = "write" /\ reqs[r].sock = s /\ reqs[r].state = "pending"
      /\ r \notin DOMAIN reqs => q[r].moved = 0
  <2>1. r \in Nat /\ r \in DOMAIN q /\ (r \in DOMAIN reqs => q = reqs)
    BY StartFacts
  <2>2. r \notin DOMAIN reqs => q[r].moved = 0
    BY StartFacts
  <2>3. r \in DOMAIN reqs => reqs'[r].op = reqs[r].op
    BY <1>1 DEF RequestStep
  <2>4. r \in DOMAIN reqs'
    BY DEF WriteEffect
  <2> QED BY <1>1, <2>1, <2>2, <2>3, <2>4
<1>3. reqs'[r].state \in Outcome \cup {"pending"}
  <2>1. \A D : reqs' \in Seq(D) => \A i \in DOMAIN reqs' : reqs'[i] \in D
    OBVIOUS
  <2>2. reqs'[r] \in Request
    BY <1>1, <1>2, <2>1 DEF RequestStep
  <2> QED BY <2>2 DEF Request
<1>4. Bytes(r)
  <2>1. \A t : /\ Moved(r, t, "read", {"completed"}) = 0
               /\ Moved(r, t, "write", Outcome \cup {"pending"}) = IF t = s THEN q[r].moved ELSE 0
    BY <1>2 DEF Moved, MovedBy
  <2>2. \A t : /\ Moved(r, t, "read", {"completed"})' = 0
               /\ Moved(r, t, "write", Outcome \cup {"pending"})' = IF t = s THEN reqs'[r].moved ELSE 0
    BY <1>1, <1>2, <1>3 DEF Moved, MovedBy
  <2> QED BY <1>1, <2>1, <2>2 DEF Bytes
<1>5. RestStep
  BY <1>1, RestFacts
<1>6. OwnEntry(r, s)
  BY <1>1 DEF OwnEntry
<1>7. reqs'[r].op \in {"accept", "read", "write"} /\ reqs'[r].op # "accept"
  BY <1>1
<1> QED BY <1>1, <1>2, <1>4, <1>5, <1>6, <1>7, OwnGood

-----------------------------------------------------------------------------
(* The calls of the program.                                               *)

LEMMA NextFdFacts ==
  ASSUME NetInv, FreeFd # {}
  PROVE  NextFd \in Fd /\ \A t \in Socket : fd[t] # NextFd
<1>1. FreeFd \subseteq Nat
  BY NetworkAssumption DEF FreeFd
<1>2. PICK x \in FreeFd : \A y \in FreeFd : ~ (y < x)
  BY <1>1, FirstFacts
<1>3. \A y \in FreeFd : x <= y
  BY <1>1, <1>2
<1>4. NextFd \in FreeFd
  BY <1>3 DEF NextFd, Min
<1> QED BY <1>4 DEF FreeFd

\* A call's request is new.
Called(q, r, op, s, c) ==
  /\ Start(q, r) /\ r \in Nat /\ r \notin DOMAIN reqs /\ ~ Handshake(r)
  /\ q[r].op = op /\ q[r].sock = s /\ q[r].new = c /\ q[r].state = "pending"
  /\ UNCHANGED results /\ LoopKept
  /\ OneAtATime => Alone(r, s)

LEMMA CallFacts ==
  ASSUME NetInv, NEW op \in Operation, NEW s \in Socket, NEW c \in Socket,
         NEW n \in ReadSize \cup WriteSize \cup {0, 1}, Call(s), WellFormed(New(op, s, c, n))
  PROVE  Called(With(op, s, c, n), Made, op, s, c)
<1> DEFINE x == New(op, s, c, n)
<1>1. /\ x \in Request /\ x.op = op /\ x.sock = s /\ x.new = c /\ x.state = "pending" /\ x.moved = 0
  BY DEF New, Request
<1>2. WellFormed(x)
  OBVIOUS
<1>3. With(op, s, c, n) = Append(reqs, x)
  BY DEF With
<1> HIDE DEF x
<1>4. reqs \in Seq(Request) /\ Len(reqs) \in Nat /\ DOMAIN reqs = 1 .. Len(reqs)
  BY NetFacts
<1>5. Start(With(op, s, c, n), Made)
  BY <1>1, <1>2, <1>3 DEF Start, Made, Call
<1>6. Made \in Nat /\ Made \notin DOMAIN reqs /\ ~ Handshake(Made)
  BY <1>4, HandshakeFacts DEF Made
<1>7. With(op, s, c, n)[Made] = x
  BY <1>1, <1>3, <1>4 DEF Made
<1>8. LoopKept /\ UNCHANGED results
  BY LoopFacts DEF Call
<1>9. OneAtATime => Alone(Made, s)
  BY DEF Call, Free, Alone, Pending
<1> QED BY <1>1, <1>5, <1>6, <1>7, <1>8, <1>9 DEF Called

LEMMA BindGood ==
  ASSUME NetInv, NEW s \in Socket, Bind(s)
  PROVE  GoodStep
<1>1. PICK q, r : q = With("bind", s, s, 0) /\ r = Made
  OBVIOUS
<1>2. WellFormed(New("bind", s, s, 0))
  BY DEF WellFormed, New, Making
<1>3. Called(q, r, "bind", s, s)
  BY <1>1, <1>2, CallFacts DEF Bind, Operation
<1>4. /\ s \in Listener \cup Udp /\ stage[s] = "unborn" /\ UNCHANGED <<table, net, shaking>>
      /\ \/ /\ FreeFd # {}
            /\ fd' = [fd EXCEPT ![s] = NextFd] /\ stage' = [stage EXCEPT ![s] = "open"]
            /\ reqs' = Settled(q, r, "completed")
         \/ reqs' = Settled(q, r, "failed") /\ UNCHANGED sockets
  BY <1>1 DEF Bind
<1>5. CASE reqs' = Settled(q, r, "failed") /\ UNCHANGED sockets
  <2>1. "failed" \in Outcome
    BY DEF Outcome
  <2> QED BY <1>3, <1>4, <1>5, <2>1, GiveUp DEF Called
<1>6. CASE /\ FreeFd # {}
           /\ fd' = [fd EXCEPT ![s] = NextFd] /\ stage' = [stage EXCEPT ![s] = "open"]
           /\ reqs' = Settled(q, r, "completed")
  <2>1. PICK f \in Fd : f = NextFd /\ \A t \in Socket : fd[t] # f
    BY <1>6, NextFdFacts
  <2>2. /\ RequestStep(r) /\ r \in DOMAIN reqs' /\ reqs'[r].state # "pending"
        /\ reqs'[r].op = "bind" /\ reqs'[r].sock = s
    <3>1. "completed" \in Outcome
      BY DEF Outcome
    <3> QED BY <1>3, <1>6, <3>1, SettledStep DEF Called
  <2>3. /\ fd \in [Socket -> Fd \cup {None}] /\ stage \in [Socket -> {"unborn", "made", "open", "closed"}]
        /\ \A t, u \in Socket : fd[t] = fd[u] /\ fd[t] # None => t = u
        /\ fd[s] = None /\ None \notin Fd
    BY <1>4, NetFacts DEF NetInv, SocketsSound
  <2>4. /\ fd' \in [Socket -> Fd \cup {None}] /\ stage' \in [Socket -> {"unborn", "made", "open", "closed"}]
        /\ \A t \in Socket \ {s} : fd'[t] = fd[t] /\ stage'[t] = stage[t]
        /\ fd'[s] = f /\ stage'[s] = "open"
    BY <1>6, <2>1, <2>3
  <2>5. SocketStep(r, {s}, None)
    <3>1. \A t, u \in Socket : fd'[t] = fd'[u] /\ fd'[t] # None => t = u
      BY <2>1, <2>3, <2>4
    <3>2. \A i \in DOMAIN reqs : reqs[i].op \in Making => reqs[i].new # s
      BY <1>4, NetworkAssumption DEF NetInv, WellFormed
    <3>3. \A h \in Fd : table[h] # None /\ reqs[table[h].req].op \in {"accept", "connect"} =>
            reqs[table[h].req].sock # s
      <4>1. ASSUME NEW h \in Fd, table[h] # None, reqs[table[h].req].op \in {"accept", "connect"}
            PROVE  fd[reqs[table[h].req].sock] = h
        BY <4>1 DEF NetInv, EntrySound
      <4> QED BY <2>3, <4>1
    <3> QED BY <1>4, <2>1, <2>3, <2>4, <3>1, <3>2, <3>3 DEF SocketStep
  <2>6. EntryStep(r, None)
    BY <1>4, <2>3, NetFacts DEF EntryStep
  <2>7. ShakingStep(r, None)
    BY <1>3, <1>4, <2>2, StillShaking DEF Called
  <2>8. WaitingStep(r, None)
    BY <2>2 DEF WaitingStep
  <2>9. RestStep
    BY <1>3, <1>4, <2>2, NetFacts, RestFacts DEF Called, NetInv, StreamsSound
  <2>10. Frame(r, {s}, None)
    BY <2>2, <2>5, <2>6, <2>7, <2>8, <2>9 DEF Frame
  <2>11. ASSUME KeptInv PROVE Keeps(r, {s}, None)
    <3>1. ASSUME NEW i \in DOMAIN reqs \ {r}, Pending(i), ~ Handshake(i)
          PROVE  fd[reqs[i].sock] # None /\ fd'[reqs[i].sock] = fd[reqs[i].sock]
      <4>1. fd[reqs[i].sock] # None /\ reqs[i].sock \in Socket
        BY <2>11, <3>1, NetFacts DEF KeptInv, RequestsKept, Handshake
      <4> QED BY <2>3, <2>4, <4>1
    <3>2. ~ Pending(r)'
      BY <2>2 DEF Pending
    <3>3. \A h \in Fd : table[h] # None /\ reqs[table[h].req].sock \in {s} /\ fd[reqs[table[h].req].sock] = h => FALSE
      BY <2>3
    <3> QED BY <1>4, <3>1, <3>2, <3>3 DEF Keeps, SameWants
  <2>12. Bytes(r)
    BY <1>4, <2>2, NoBytes
  <2>13. r \in Nat /\ {s} \in SUBSET Socket
    BY <1>3 DEF Called
  <2> QED BY <2>10, <2>11, <2>12, <2>13 DEF GoodStep, Good
<1> QED BY <1>4, <1>5, <1>6

LEMMA FreshFacts ==
  ASSUME NetInv, NEW c \in Socket, Fresh(c)
  PROVE  /\ stage[c] = "unborn" /\ fd[c] = None
         /\ \A i \in DOMAIN reqs : Pending(i) => reqs[i].new # c
         /\ \A h \in Fd : table[h] # None =>
              /\ table[h].req \in DOMAIN reqs
              /\ reqs[table[h].req].op = "connect" => reqs[table[h].req].sock # c
<1>1. stage[c] = "unborn" /\ fd[c] = None
  BY DEF Fresh, NetInv, SocketsSound
<1>2. \A i \in DOMAIN reqs : Pending(i) => reqs[i].new # c
  BY DEF Fresh
<1>3. \A h \in Fd : table[h] # None =>
        /\ table[h].req \in DOMAIN reqs
        /\ reqs[table[h].req].op = "connect" => stage[reqs[table[h].req].sock] = "made"
  BY DEF NetInv, EntrySound
<1> QED BY <1>1, <1>2, <1>3

\* A call makes a socket at once.
LEMMA CallCanMake ==
  ASSUME NetInv, NEW q, NEW r, NEW op \in {"accept", "connect"}, NEW s, NEW c \in Socket,
         Called(q, r, op, s, c), Fresh(c), NEW f, \A t \in Socket : fd[t] # f, table' = table
  PROVE  CanMake(q, r, c, f, None)
<1>1. /\ stage[c] = "unborn" /\ fd[c] = None
      /\ \A i \in DOMAIN reqs : Pending(i) => reqs[i].new # c
  BY FreshFacts
<1>2. \A h \in Fd : table[h] # None =>
        /\ table[h].req \in DOMAIN reqs
        /\ reqs[table[h].req].op = "connect" => reqs[table[h].req].sock # c
  BY FreshFacts
<1>3. table \in [Fd -> Entry \cup {None}] /\ None \notin Fd
  BY NetFacts
<1>4. /\ Start(q, r) /\ r \notin DOMAIN reqs /\ q[r].op = op /\ q[r].sock = s /\ q[r].new = c
      /\ q[r].state = "pending" /\ (OneAtATime => Alone(r, s))
  BY DEF Called
<1> QED BY <1>1, <1>2, <1>3, <1>4 DEF CanMake

LEMMA ConnectGood ==
  ASSUME NetInv, NEW c \in Socket, Connect(c)
  PROVE  GoodStep
<1>1. PICK q, r : q = With("connect", c, c, 0) /\ r = Made
  OBVIOUS
<1>2. c \in Tcp \cup Tls /\ Fresh(c) /\ net' = net
  BY DEF Connect
<1>3. WellFormed(New("connect", c, c, 0))
  BY <1>2 DEF WellFormed, New, Making
<1>4. Called(q, r, "connect", c, c)
  BY <1>1, <1>3, CallFacts DEF Connect, Operation
<1>5. \/ FreeFd # {} /\ Established(q, r, c, NextFd) /\ UNCHANGED table
      \/ /\ FreeFd # {}
         /\ fd' = [fd EXCEPT ![c] = NextFd] /\ stage' = [stage EXCEPT ![c] = "made"]
         /\ table' = Add(NextFd, r, "write") /\ reqs' = q /\ UNCHANGED shaking
      \/ reqs' = Settled(q, r, "failed") /\ UNCHANGED <<sockets, table, shaking>>
  BY <1>1 DEF Connect
<1>6. net' \in [Socket -> Link] /\ StreamsSound'
  BY <1>2, NetFacts DEF NetInv, StreamsSound
<1>7. CASE FreeFd # {} /\ Established(q, r, c, NextFd) /\ UNCHANGED table
  <2>1. PICK f \in Fd : f = NextFd /\ \A t \in Socket : fd[t] # f
    BY <1>7, NextFdFacts
  <2>2. CanMake(q, r, c, f, None)
    BY <1>2, <1>4, <1>7, <2>1, CallCanMake
  <2>3. Established(q, r, c, f) /\ UNCHANGED results /\ LoopKept
    BY <1>4, <1>7, <2>1 DEF Called
  <2> QED BY <1>2, <1>6, <2>2, <2>3, EstablishedStep
<1>8. CASE reqs' = Settled(q, r, "failed") /\ UNCHANGED <<sockets, table, shaking>>
  <2>1. "failed" \in Outcome
    BY DEF Outcome
  <2> QED BY <1>2, <1>4, <1>8, <2>1, GiveUp DEF Called
<1>9. CASE /\ FreeFd # {}
           /\ fd' = [fd EXCEPT ![c] = NextFd] /\ stage' = [stage EXCEPT ![c] = "made"]
           /\ table' = Add(NextFd, r, "write") /\ reqs' = q /\ UNCHANGED shaking
  <2>1. PICK f \in Fd : f = NextFd /\ \A t \in Socket : fd[t] # f
    BY <1>9, NextFdFacts
  <2>2. /\ Start(q, r) /\ r \in Nat /\ r \notin DOMAIN reqs /\ ~ Handshake(r)
        /\ q[r].op = "connect" /\ q[r].sock = c /\ q[r].new = c /\ q[r].state = "pending"
        /\ UNCHANGED results /\ LoopKept /\ (OneAtATime => Alone(r, c))
    BY <1>4 DEF Called
  <2>3. RequestStep(r) /\ r \in DOMAIN reqs'
    BY <1>9, <2>2, KeepStep
  <2>4. /\ fd \in [Socket -> Fd \cup {None}] /\ stage \in [Socket -> {"unborn", "made", "open", "closed"}]
        /\ table \in [Fd -> Entry \cup {None}]
        /\ \A t, u \in Socket : fd[t] = fd[u] /\ fd[t] # None => t = u
        /\ None \notin Fd
    BY NetFacts DEF NetInv, SocketsSound
  <2>5. /\ stage[c] = "unborn" /\ fd[c] = None
        /\ \A i \in DOMAIN reqs : Pending(i) => reqs[i].new # c
        /\ \A h \in Fd : table[h] # None /\ reqs[table[h].req].op = "connect" => reqs[table[h].req].sock # c
    BY <1>2, FreshFacts
  <2>6. /\ fd' \in [Socket -> Fd \cup {None}] /\ stage' \in [Socket -> {"unborn", "made", "open", "closed"}]
        /\ \A t \in Socket \ {c} : fd'[t] = fd[t] /\ stage'[t] = stage[t]
        /\ fd'[c] = f /\ stage'[c] = "made"
    BY <1>9, <2>1, <2>4
  <2>7. /\ table' \in [Fd -> Entry \cup {None}] /\ \A h \in Fd \ {f} : table'[h] = table[h]
        /\ table'[f] = [req |-> r, want |-> "write"]
    <3>1. r \in 1 .. MaxRequests
      <4>1. \A D : reqs' \in Seq(D) => DOMAIN reqs' = 1 .. Len(reqs') /\ Len(reqs') \in Nat
        OBVIOUS
      <4> QED BY <2>3, <4>1, NetFacts DEF RequestStep
    <3>2. table' = Add(f, r, "write")
      BY <1>9, <2>1
    <3> QED BY <2>1, <2>4, <3>1, <3>2 DEF Add, Entry
  <2>8. ShakingStep(r, f) /\ ~ Handshake(r)'
    BY <1>9, <2>2, <2>3, StillShaking
  <2>9. SocketStep(r, {c}, f)
    <3>1. \A t, u \in Socket : fd'[t] = fd'[u] /\ fd'[t] # None => t = u
      BY <2>1, <2>4, <2>6
    <3>2. \A h \in Fd : table[h] # None /\ reqs[table[h].req].op \in {"accept", "connect"} =>
            reqs[table[h].req].sock # c
      <4>1. ASSUME NEW h \in Fd, table[h] # None, reqs[table[h].req].op \in {"accept", "connect"}
            PROVE  fd[reqs[table[h].req].sock] = h
        BY <4>1 DEF NetInv, EntrySound
      <4> QED BY <2>4, <2>5, <4>1
    <3> QED BY <2>1, <2>4, <2>5, <2>6, <3>1, <3>2 DEF SocketStep
  <2>10. EntryStep(r, f)
    BY <1>9, <2>2, <2>3, <2>5, <2>6, <2>7, <2>8 DEF EntryStep
  <2>11. WaitingStep(r, f)
    BY <1>9, <2>2, <2>5, <2>6 DEF WaitingStep
  <2>12. RestStep
    BY <1>6, <2>2, <2>3, RestFacts
  <2>13. Frame(r, {c}, f)
    BY <2>3, <2>8, <2>9, <2>10, <2>11, <2>12 DEF Frame
  <2>14. ASSUME KeptInv, OneAtATime PROVE Keeps(r, {c}, f)
    <3>1. ASSUME NEW i \in DOMAIN reqs \ {r}, Pending(i), ~ Handshake(i)
          PROVE  fd[reqs[i].sock] # f /\ fd'[reqs[i].sock] = fd[reqs[i].sock]
      <4>1. fd[reqs[i].sock] # None /\ reqs[i].sock \in Socket
        BY <2>14, <3>1, NetFacts DEF KeptInv, RequestsKept, Handshake
      <4> QED BY <2>1, <2>5, <2>6, <4>1
    <3>2. HasEntry(r)'
      BY <1>9, <2>1, <2>2, <2>4, <2>6, <2>7 DEF HasEntry, Wants
    <3>3. Alone(r, reqs'[r].sock)
      BY <1>9, <2>2, <2>14
    <3>4. \A h \in Fd : table[h] # None /\ reqs[table[h].req].sock \in {c} /\ fd[reqs[table[h].req].sock] = h => FALSE
      BY <2>4, <2>5
    <3> QED BY <1>2, <3>1, <3>2, <3>3, <3>4 DEF Keeps, SameWants
  <2>15. Bytes(r)
    BY <1>2, <1>9, <2>2, <2>3, NoBytes
  <2> QED BY <2>1, <2>2, <2>13, <2>14, <2>15 DEF GoodStep, Good
<1> QED BY <1>5, <1>7, <1>8, <1>9

\* An accept takes a connection, or fails.
LEMMA TryAcceptGood ==
  ASSUME NetInv, NEW q, NEW r, NEW s \in Listener, NEW c \in Tcp \cup Tls, NEW g \in Fd \cup {None},
         Start(q, r), q[r].op = "accept", q[r].sock = s, q[r].new = c, q[r].state = "pending", ~ Handshake(r),
         NEW done, NEW failed \in {table, Del(fd[s])}, TryAccept(q, r, done, failed), MayAccept(s),
         UNCHANGED results, LoopKept,
         KeptInv /\ OneAtATime => fd[s] # None /\ Alone(r, s),
         \A f \in Fd : (\A t \in Socket : fd[t] # f) /\ table' = done => CanMake(q, r, c, f, g)
  PROVE  GoodStep
<1>1. s \in Socket
  BY DEF Socket
<1>2. CASE FreeFd = {}
  <2>1. reqs' = Settled(q, r, "failed") /\ table' = failed /\ UNCHANGED <<net, sockets, shaking>>
    BY <1>2 DEF TryAccept
  <2>2. /\ RequestStep(r) /\ r \in DOMAIN reqs' /\ reqs'[r].state # "pending"
        /\ reqs'[r].op = "accept" /\ reqs'[r].sock = s
    <3>1. "failed" \in Outcome
      BY DEF Outcome
    <3> QED BY <2>1, <3>1, SettledStep
  <2>3. r \in Nat
    BY StartFacts
  <2>4. RestStep
    BY <2>1, <2>2, NetFacts, RestFacts DEF NetInv, StreamsSound
  <2>5. OwnEntry(r, s)
    BY <2>1, <2>2 DEF OwnEntry
  <2>6. Bytes(r)
    BY <2>1, <2>2, NoBytes
  <2>7. reqs'[r].op \in {"accept", "read", "write"} /\ reqs'[r].op \notin {"read", "write"}
    BY <2>2
  <2> QED BY <1>1, <2>1, <2>2, <2>3, <2>4, <2>5, <2>6, <2>7, OwnGood
<1>3. CASE FreeFd # {}
  <2>1. /\ net' = [net EXCEPT ![s].wire = @ - 1] /\ table' = done
        /\ Established(q, r, c, NextFd)
    BY <1>3 DEF TryAccept
  <2>2. PICK f \in Fd : f = NextFd /\ \A t \in Socket : fd[t] # f
    BY <1>3, NextFdFacts
  <2>3. CanMake(q, r, c, f, g)
    BY <2>1, <2>2
  <2>4. net \in [Socket -> Link] /\ net[s] \in Link /\ net[s].wire \in Nat /\ net[s].wire > 0
    BY <1>1, <1>3, NetFacts DEF Link, MayAccept
  <2>5. PICK w \in Nat : w = net[s].wire - 1
    BY <2>4
  <2> DEFINE l == [net[s] EXCEPT !.wire = w]
  <2>6. l \in Link /\ l.out = net[s].out /\ l.held = net[s].held /\ l.talk = net[s].talk
    BY <2>4 DEF Link
  <2>7. net' = [net EXCEPT ![s] = l]
    BY <2>1, <2>4, <2>5
  <2> HIDE DEF l
  <2>8. net' \in [Socket -> Link] /\ net'[s] = l /\ \A t \in Socket \ {s} : net'[t] = net[t]
    BY <1>1, <2>4, <2>6, <2>7
  <2>9. StreamsSound'
    BY <2>6, <2>8 DEF StreamsSound, NetInv
  <2>10. \A t \in Socket \ Listener : net'[t] = net[t]
    BY <2>8
  <2>11. \A t \in Socket : net'[t].out = net[t].out /\ net'[t].talk = net[t].talk
    BY <2>6, <2>8
  <2>12. Established(q, r, c, f)
    BY <2>1, <2>2
  <2> QED BY <2>3, <2>8, <2>9, <2>10, <2>11, <2>12, EstablishedStep
<1> QED BY <1>2, <1>3

LEMMA AcceptGood ==
  ASSUME NetInv, NEW s \in Socket, NEW c \in Socket, Accept(s, c)
  PROVE  GoodStep
<1>1. PICK q, r : q = With("accept", s, c, 0) /\ r = Made
  OBVIOUS
<1>2. s \in Listener /\ c \in Tcp \cup Tls /\ Fresh(c)
  BY DEF Accept
<1>3. WellFormed(New("accept", s, c, 0))
  BY <1>2 DEF WellFormed, New, Making
<1>4. Called(q, r, "accept", s, c)
  BY <1>1, <1>3, CallFacts DEF Accept, Operation
<1>5. /\ Start(q, r) /\ r \in Nat /\ r \notin DOMAIN reqs /\ ~ Handshake(r)
      /\ q[r].op = "accept" /\ q[r].sock = s /\ q[r].new = c /\ q[r].state = "pending"
      /\ UNCHANGED results /\ LoopKept /\ (OneAtATime => Alone(r, s))
  BY <1>4 DEF Called
<1>6. \/ stage[s] = "open" /\ MayAccept(s) /\ TryAccept(q, r, table, table)
      \/ /\ stage[s] = "open"
         /\ table' = Add(fd[s], r, "read") /\ reqs' = q
         /\ UNCHANGED <<net, sockets, shaking>>
      \/ reqs' = Settled(q, r, "failed") /\ UNCHANGED <<net, sockets, table, shaking>>
  BY <1>1 DEF Accept
<1>7. stage[s] = "open" => fd[s] # None
  BY DEF NetInv, SocketsSound
<1>8. CASE stage[s] = "open" /\ MayAccept(s) /\ TryAccept(q, r, table, table)
  <2>1. \A f \in Fd : (\A t \in Socket : fd[t] # f) /\ table' = table => CanMake(q, r, c, f, None)
    BY <1>2, <1>4, CallCanMake
  <2> QED BY <1>2, <1>5, <1>7, <1>8, <2>1, TryAcceptGood
<1>9. CASE /\ stage[s] = "open"
           /\ table' = Add(fd[s], r, "read") /\ reqs' = q
           /\ UNCHANGED <<net, sockets, shaking>>
  <2>1. RequestStep(r) /\ r \in DOMAIN reqs' /\ reqs'[r] = q[r]
    BY <1>5, <1>9, KeepStep
  <2>2. RestStep
    BY <1>5, <1>9, <2>1, NetFacts, RestFacts DEF NetInv, StreamsSound
  <2>3. OwnEntry(r, s)
    BY <1>5, <1>9, <2>1 DEF OwnEntry, Wants
  <2>4. Bytes(r)
    BY <1>5, <1>9, <2>1, NoBytes
  <2>5. /\ reqs'[r].op \in {"accept", "read", "write"} /\ reqs'[r].op \notin {"read", "write"}
        /\ reqs'[r].sock = s /\ reqs'[r].new = c
    BY <1>5, <2>1
  <2> QED BY <1>2, <1>5, <1>7, <1>9, <2>1, <2>2, <2>3, <2>4, <2>5, OwnGood
<1>10. CASE reqs' = Settled(q, r, "failed") /\ UNCHANGED <<net, sockets, table, shaking>>
  <2>1. "failed" \in Outcome
    BY DEF Outcome
  <2> QED BY <1>5, <1>10, <2>1, GiveUp
<1> QED BY <1>6, <1>8, <1>9, <1>10

LEMMA WaitEffect ==
  ASSUME NetInv, NEW q, NEW r, NEW s \in Socket, Start(q, r), q[r].op = "read", q[r].sock = s, q[r].state = "pending",
         s \notin Tls,
         table' = Add(fd[s], r, "read"), reqs' = q, UNCHANGED net
  PROVE  ReadEffect(q, r, s)
<1>1. RequestStep(r) /\ r \in DOMAIN reqs' /\ reqs'[r] = q[r]
  BY KeepStep
<1>2. net \in [Socket -> Link] /\ net[s].wire \in Nat /\ net[s].held \in Nat
  BY NetFacts DEF Link
<1>3. StreamsSound'
  BY DEF NetInv, StreamsSound
<1>4. net[s].wire + net[s].held = net[s].wire + net[s].held + 0
  BY <1>2
<1>5. Wants("read", net'[s]) = "read"
  BY DEF NetInv, StreamsSound, Wants
<1> QED BY <1>1, <1>2, <1>3, <1>4, <1>5 DEF ReadEffect

LEMMA ReadCallGood ==
  ASSUME NetInv, NEW s \in Socket, NEW n \in ReadSize, Read(s, n)
  PROVE  GoodStep
<1>1. PICK q, r : q = With("read", s, s, n) /\ r = Made
  OBVIOUS
<1>2. s \notin Listener /\ UNCHANGED <<sockets, shaking>>
  BY DEF Read
<1>3. WellFormed(New("read", s, s, n))
  <2>1. n \in Nat \ {0}
    BY NetworkAssumption
  <2> QED BY <1>2, <2>1 DEF WellFormed, New, Making
<1>4. Called(q, r, "read", s, s)
  BY <1>1, <1>3, CallFacts DEF Read, Operation
<1>5. /\ Start(q, r) /\ q[r].op = "read" /\ q[r].sock = s /\ q[r].state = "pending"
      /\ UNCHANGED results /\ LoopKept /\ (OneAtATime => Alone(r, s))
  BY <1>4 DEF Called
<1>6. \/ stage[s] = "open" /\ TryRead(q, r)
      \/ stage[s] = "open" /\ s \in Tcp /\ table' = Add(fd[s], r, "read") /\ reqs' = q /\ UNCHANGED net
      \/ stage[s] = "closed" /\ reqs' = Settled(q, r, "failed") /\ UNCHANGED <<net, table>>
  BY <1>1 DEF Read
<1>7. stage[s] = "open" => fd[s] # None
  BY DEF NetInv, SocketsSound
<1>8. CASE stage[s] = "open" /\ ReadEffect(q, r, s)
  BY <1>2, <1>5, <1>7, <1>8, ReadGood
<1>9. CASE stage[s] = "closed" /\ reqs' = Settled(q, r, "failed") /\ UNCHANGED <<net, table>>
  <2>1. "failed" \in Outcome /\ "failed" # "completed"
    BY DEF Outcome
  <2> QED BY <1>2, <1>5, <1>9, <2>1, GiveUp
<1>10. TryRead(q, r) => ReadEffect(q, r, s)
  BY <1>5, ReadFacts
<1>11. s \in Tcp /\ table' = Add(fd[s], r, "read") /\ reqs' = q /\ UNCHANGED net => ReadEffect(q, r, s)
  BY <1>5, WaitEffect, NetworkAssumption
<1> QED BY <1>6, <1>8, <1>9, <1>10, <1>11

LEMMA WriteCallGood ==
  ASSUME NetInv, NEW s \in Socket, NEW n \in WriteSize, Write(s, n)
  PROVE  GoodStep
<1>1. PICK z : z = IF s \in Udp THEN 1 ELSE n
  OBVIOUS
<1>2. PICK q, r : q = With("write", s, s, z) /\ r = Made
  OBVIOUS
<1>3. s \notin Listener /\ UNCHANGED <<sockets, shaking>>
  BY DEF Write
<1>4. z \in ReadSize \cup WriteSize \cup {0, 1} /\ z \in Nat \ {0}
  BY <1>1, NetworkAssumption
<1>5. WellFormed(New("write", s, s, z))
  BY <1>3, <1>4 DEF WellFormed, New, Making
<1>6. Called(q, r, "write", s, s)
  BY <1>2, <1>4, <1>5, CallFacts DEF Write, Operation
<1>7. /\ Start(q, r) /\ q[r].op = "write" /\ q[r].sock = s /\ q[r].state = "pending"
      /\ UNCHANGED results /\ LoopKept /\ (OneAtATime => Alone(r, s))
  BY <1>6 DEF Called
<1>8. \/ stage[s] = "open" /\ \E idle \in {table, Del(fd[s])} : TryWrite(q, r, idle)
      \/ stage[s] = "closed" /\ reqs' = Settled(q, r, "failed") /\ UNCHANGED <<net, table>>
  BY <1>1, <1>2 DEF Write
<1>9. stage[s] = "open" => fd[s] # None
  BY DEF NetInv, SocketsSound
<1>10. CASE stage[s] = "open" /\ WriteEffect(q, r, s)
  BY <1>3, <1>7, <1>9, <1>10, WriteGood
<1>11. CASE stage[s] = "closed" /\ reqs' = Settled(q, r, "failed") /\ UNCHANGED <<net, table>>
  <2>1. "failed" \in Outcome /\ "failed" # "completed"
    BY DEF Outcome
  <2> QED BY <1>3, <1>7, <1>11, <2>1, GiveUp
<1>12. ASSUME NEW idle \in {table, Del(fd[s])}, TryWrite(q, r, idle) PROVE WriteEffect(q, r, s)
  BY <1>7, <1>12, WriteFacts
<1> QED BY <1>8, <1>10, <1>11, <1>12

LEMMA CancelGood ==
  ASSUME NetInv, NEW r \in 1 .. MaxRequests, Cancel(r)
  PROVE  GoodStep
<1>1. /\ reqs' = Settled(reqs, r, "cancelled") /\ r \in DOMAIN reqs
      /\ UNCHANGED <<sockets, table, net, shaking, results>>
  BY DEF Cancel, Pending, threads
<1>2. "cancelled" \in Outcome /\ "cancelled" # "completed"
  BY DEF Outcome
<1>3. LoopKept
  BY LoopFacts DEF Cancel, threads
<1>4. reqs[r].op \in {"read", "write"} => stage[reqs[r].sock] \in {"open", "closed"}
  BY <1>1 DEF NetInv, SocketsSound
<1>5. Start(reqs, r)
  BY <1>1 DEF Start
<1> QED BY <1>1, <1>2, <1>3, <1>4, <1>5, GiveUp

\* No request acts.
LEMMA NoRequest ==
  ASSUME NetInv, UNCHANGED reqs
  PROVE  RequestStep(0) /\ 0 \notin DOMAIN reqs'
BY NetFacts DEF RequestStep

LEMMA CloseGood ==
  ASSUME NetInv, NEW s \in Socket, Close(s)
  PROVE  GoodStep
<1>1. /\ stage[s] = "open" /\ Free(s) /\ table' = Del(fd[s])
      /\ fd' = [fd EXCEPT ![s] = None] /\ stage' = [stage EXCEPT ![s] = "closed"]
      /\ UNCHANGED <<reqs, net, shaking, results>>
  BY DEF Close, threads
<1>2. LoopKept
  BY LoopFacts DEF Close, threads
<1>3. RequestStep(0) /\ 0 \notin DOMAIN reqs' /\ 0 \notin DOMAIN reqs
  BY <1>1, NoRequest
<1>4. /\ fd \in [Socket -> Fd \cup {None}] /\ stage \in [Socket -> {"unborn", "made", "open", "closed"}]
      /\ table \in [Fd -> Entry \cup {None}] /\ None \notin Fd
      /\ \A t, u \in Socket : fd[t] = fd[u] /\ fd[t] # None => t = u
      /\ fd[s] # None
  BY <1>1, NetFacts DEF NetInv, SocketsSound
<1>5. PICK g \in Fd : g = fd[s]
  BY <1>4
<1>6. /\ fd' \in [Socket -> Fd \cup {None}] /\ stage' \in [Socket -> {"unborn", "made", "open", "closed"}]
      /\ \A t \in Socket \ {s} : fd'[t] = fd[t] /\ stage'[t] = stage[t]
      /\ fd'[s] = None /\ stage'[s] = "closed"
  BY <1>1, <1>4
<1>7. table' \in [Fd -> Entry \cup {None}] /\ table'[g] = None /\ \A h \in Fd \ {g} : table'[h] = table[h]
  BY <1>1, <1>4, <1>5 DEF Del
<1>8. SocketStep(0, {s}, g)
  <2>1. \A t, u \in Socket : fd'[t] = fd'[u] /\ fd'[t] # None => t = u
    BY <1>4, <1>6
  <2>2. \A i \in DOMAIN reqs : Pending(i) /\ reqs[i].op \in Making => reqs[i].new # s
    BY <1>1 DEF NetInv, MakingSound
  <2>3. \A h \in Fd \ {g} : table[h] # None /\ reqs[table[h].req].op \in {"accept", "connect"} =>
          reqs[table[h].req].sock # s
    <3>1. ASSUME NEW h \in Fd, table[h] # None, reqs[table[h].req].op \in {"accept", "connect"}
          PROVE  fd[reqs[table[h].req].sock] = h
      BY <3>1 DEF NetInv, EntrySound
    <3> QED BY <1>5, <3>1
  <2> QED BY <1>1, <1>4, <1>6, <2>1, <2>2, <2>3 DEF SocketStep
<1>9. EntryStep(0, g)
  BY <1>7 DEF EntryStep
<1>10. ShakingStep(0, g)
  BY <1>1, <1>3, StillShaking
<1>11. WaitingStep(0, g)
  BY <1>3 DEF WaitingStep
<1>12. RestStep
  BY <1>1, <1>2, <1>3, NetFacts, RestFacts DEF NetInv, StreamsSound
<1>13. Frame(0, {s}, g)
  BY <1>3, <1>8, <1>9, <1>10, <1>11, <1>12 DEF Frame
<1>14. ASSUME KeptInv, OneAtATime PROVE Keeps(0, {s}, g)
  <2>1. Alone(0, s)
    BY <1>1, <1>14 DEF Free, Alone, Pending
  <2>2. ASSUME NEW i \in DOMAIN reqs \ {0}, Pending(i), ~ Handshake(i)
        PROVE  fd[reqs[i].sock] # g /\ fd'[reqs[i].sock] = fd[reqs[i].sock]
    <3>1. fd[reqs[i].sock] # None /\ fd[reqs[i].sock] # g /\ reqs[i].sock \in Socket
      BY <1>5, <1>14, <2>1, <2>2, AloneKeeps, NetFacts
    <3> QED BY <1>5, <1>6, <3>1
  <2>3. \A h \in Fd \ {g} : table[h] # None /\ reqs[table[h].req].sock \in {s} /\ fd[reqs[table[h].req].sock] = h => FALSE
    BY <1>5
  <2> QED BY <1>1, <1>3, <2>2, <2>3 DEF Keeps, SameWants
<1>15. Bytes(0)
  BY <1>1, <1>3, NoBytes
<1>16. 0 \in Nat /\ {s} \in SUBSET Socket
  OBVIOUS
<1> QED BY <1>13, <1>14, <1>15, <1>16 DEF GoodStep, Good

LEMMA TotalZero ==
  ASSUME NEW n \in Nat, NEW w, \A i \in 1 .. n : w[i] = 0
  PROVE  Total(w, n) = 0
<1>1. PICK g : IsSum(g, w, n) /\ Total(w, n) = g[n]
  BY TotalFacts
<1>2. g[0] = 0 /\ \A i \in 1 .. n : g[i] = g[i - 1] + 0
  BY <1>1, SumFacts
<1> DEFINE T == {i \in 0 .. n : g[i] # 0}
<1>3. ASSUME T # {} PROVE FALSE
  <2>1. PICK i \in T : \A j \in T : ~ (j < i)
    <3>1. T \subseteq Nat
      OBVIOUS
    <3> HIDE DEF T
    <3> QED BY <1>3, <3>1, FirstFacts
  <2>2. i \in 1 .. n /\ i - 1 \in 0 .. n /\ i - 1 < i /\ g[i] # 0
    BY <1>2, <2>1
  <2>3. g[i - 1] = 0
    BY <2>1, <2>2
  <2> QED BY <1>2, <2>2, <2>3
<1> QED BY <1>1, <1>3

\* No byte has come to a socket that does not exist, or gone from it.
LEMMA UnbornEmpty ==
  ASSUME BytesInv, NEW c \in Socket \ Listener, stage[c] = "unborn"
  PROVE  net[c].came = net[c].wire + net[c].held /\ net[c].out = 0
<1>1. NetInv
  BY DEF BytesInv
<1>2. PICK n \in Nat : n = Len(reqs) /\ DOMAIN reqs = 1 .. n
  BY <1>1, NetFacts
<1>3. \A i \in DOMAIN reqs : reqs[i].op \in {"read", "write"} => reqs[i].sock # c
  BY <1>1 DEF NetInv, SocketsSound
<1>4. ASSUME NEW op \in {"read", "write"}, NEW o PROVE SumMoved(c, op, o) = 0
  <2> DEFINE w == [i \in DOMAIN reqs |-> MovedBy(i, c, op, o)]
  <2>1. \A i \in 1 .. n : w[i] = 0
    BY <1>2, <1>3 DEF MovedBy
  <2>2. SumMoved(c, op, o) = Total(w, n)
    BY <1>2 DEF SumMoved
  <2> HIDE DEF w
  <2> QED BY <2>1, <2>2, TotalZero
<1>5. PICK a \in Nat, b \in Nat, d \in Nat, e \in Nat :
        a = net[c].came /\ b = net[c].wire /\ d = net[c].held /\ e = net[c].out
  BY <1>1, NetFacts DEF Link
<1>6. a = b + d + 0 /\ e = 0
  BY <1>4, <1>5 DEF BytesInv, NothingLost, WrittenOnce
<1> QED BY <1>5, <1>6

LEMMA UpgradeGood ==
  ASSUME NetInv, NEW s \in Socket, NEW c \in Socket, Upgrade(s, c)
  PROVE  GoodStep
<1>1. PICK q, r : q = With("upgrade", s, c, 0) /\ r = Made
  OBVIOUS
<1>2. s \in Tcp /\ c \in Tls /\ Fresh(c) /\ stage[s] = "open" /\ table' = table
  BY DEF Upgrade
<1>3. WellFormed(New("upgrade", s, c, 0))
  BY <1>2 DEF WellFormed, New, Making
<1>4. Called(q, r, "upgrade", s, c)
  BY <1>1, <1>3, CallFacts DEF Upgrade, Operation
<1>5. /\ Start(q, r) /\ r \in Nat /\ r \notin DOMAIN reqs /\ ~ Handshake(r)
      /\ q[r].op = "upgrade" /\ q[r].sock = s /\ q[r].new = c /\ q[r].state = "pending"
      /\ UNCHANGED results /\ LoopKept /\ (OneAtATime => Alone(r, s))
  BY <1>4 DEF Called
<1>6. \/ reqs' = Settled(q, r, "failed") /\ UNCHANGED <<sockets, net, shaking>>
      \/ /\ reqs' = q /\ shaking' = shaking \cup {r}
         /\ fd' = [fd EXCEPT ![c] = fd[s], ![s] = None]
         /\ stage' = [stage EXCEPT ![c] = "made", ![s] = "closed"]
         /\ net' = [net EXCEPT ![c] = [net[s] EXCEPT !.came = net[s].wire, !.out = 0],
                              ![s] = [net[s] EXCEPT !.came = @ - net[s].wire, !.wire = 0]]
  BY <1>1 DEF Upgrade
<1>7. CASE reqs' = Settled(q, r, "failed") /\ UNCHANGED <<sockets, net, shaking>>
  <2>1. "failed" \in Outcome
    BY DEF Outcome
  <2> QED BY <1>2, <1>5, <1>7, <2>1, GiveUp
<1>8. CASE /\ reqs' = q /\ shaking' = shaking \cup {r}
           /\ fd' = [fd EXCEPT ![c] = fd[s], ![s] = None]
           /\ stage' = [stage EXCEPT ![c] = "made", ![s] = "closed"]
           /\ net' = [net EXCEPT ![c] = [net[s] EXCEPT !.came = net[s].wire, !.out = 0],
                                ![s] = [net[s] EXCEPT !.came = @ - net[s].wire, !.wire = 0]]
  <2>1. RequestStep(r) /\ r \in DOMAIN reqs' /\ reqs'[r] = q[r]
    BY <1>5, <1>8, KeepStep
  <2>2. /\ fd \in [Socket -> Fd \cup {None}] /\ stage \in [Socket -> {"unborn", "made", "open", "closed"}]
        /\ table \in [Fd -> Entry \cup {None}] /\ None \notin Fd
        /\ \A t, u \in Socket : fd[t] = fd[u] /\ fd[t] # None => t = u
        /\ fd[s] # None /\ s # c /\ s \notin Listener /\ c \notin Listener /\ s \notin Tls
    <3>1. /\ fd \in [Socket -> Fd \cup {None}] /\ stage \in [Socket -> {"unborn", "made", "open", "closed"}]
          /\ table \in [Fd -> Entry \cup {None}] /\ None \notin Fd
      BY NetFacts
    <3>2. /\ \A t, u \in Socket : fd[t] = fd[u] /\ fd[t] # None => t = u
          /\ fd[s] # None
      BY <1>2 DEF NetInv, SocketsSound
    <3>3. s # c /\ s \notin Listener /\ c \notin Listener /\ s \notin Tls
      BY <1>2, NetworkAssumption
    <3> QED BY <3>1, <3>2, <3>3
  <2>3. /\ stage[c] = "unborn" /\ fd[c] = None
        /\ \A i \in DOMAIN reqs : Pending(i) => reqs[i].new # c
    BY <1>2, FreshFacts
  <2>4. \A h \in Fd : table[h] # None =>
          /\ table[h].req \in DOMAIN reqs
          /\ reqs[table[h].req].op = "connect" => reqs[table[h].req].sock # c
    BY <1>2, FreshFacts
  <2>5. /\ fd' \in [Socket -> Fd \cup {None}] /\ stage' \in [Socket -> {"unborn", "made", "open", "closed"}]
        /\ \A t \in Socket \ {s, c} : fd'[t] = fd[t] /\ stage'[t] = stage[t]
        /\ fd'[s] = None /\ stage'[s] = "closed" /\ fd'[c] = fd[s] /\ stage'[c] = "made"
    BY <1>8, <2>2
  <2>6. SocketStep(r, {s, c}, None)
    <3>1. \A t, u \in Socket : fd'[t] = fd'[u] /\ fd'[t] # None => t = u
      BY <2>2, <2>5
    <3>2. \A i \in DOMAIN reqs : Pending(i) /\ reqs[i].op \in Making => reqs[i].new # s
      BY <1>2 DEF NetInv, MakingSound
    <3>3. ASSUME NEW h \in Fd, table[h] # None, reqs[table[h].req].op \in {"accept", "connect"}
          PROVE  reqs[table[h].req].sock \notin {s, c}
      <4>1. reqs[table[h].req].op = "connect" => stage[reqs[table[h].req].sock] = "made"
        BY <3>3 DEF NetInv, EntrySound
      <4>2. reqs[table[h].req].op = "accept" => reqs[table[h].req].sock \in Listener
        BY <2>4, <3>3 DEF NetInv, WellFormed
      <4> QED BY <1>2, <2>2, <2>4, <3>3, <4>1, <4>2
    <3> QED BY <1>2, <2>2, <2>3, <2>5, <3>1, <3>2, <3>3 DEF SocketStep
  <2>7. EntryStep(r, None)
    BY <1>2, <2>2 DEF EntryStep
  <2>8. ShakingStep(r, None) /\ Handshake(r)'
    <3>1. reqs'[r].op \in Making /\ \A h \in Fd \ {None} : table[h] # None => table[h].req # r
      BY <1>5, <2>1, <2>4 DEF Making
    <3> QED BY <1>5, <1>8, <2>1, <3>1, StartShaking
  <2>9. WaitingStep(r, None)
    BY <1>5, <2>1, <2>3, <2>4, <2>5 DEF WaitingStep
  <2>10. PICK a \in Nat, w \in Nat : a = net[s].came /\ w = net[s].wire /\ net[s].held = 0 /\ w <= a
                                   /\ net[s].talk = "none"
    <3>1. net[s] \in Link
      BY NetFacts
    <3>2. PICK a \in Nat, w \in Nat : a = net[s].came /\ w = net[s].wire
      BY <3>1 DEF Link
    <3>3. net[s].held = 0 /\ w + 0 <= a /\ net[s].talk = "none"
      BY <2>2, <3>2 DEF NetInv, StreamsSound
    <3> QED BY <3>2, <3>3
  <2>11. PICK b \in Nat : b = a - w
    BY <2>10
  <2> DEFINE l == [net[s] EXCEPT !.came = w, !.out = 0]
             k == [net[s] EXCEPT !.came = b, !.wire = 0]
  <2>12. /\ l \in Link /\ l.came = w /\ l.wire = w /\ l.held = 0 /\ l.out = 0
         /\ k \in Link /\ k.came = b /\ k.wire = 0 /\ k.held = 0 /\ k.out = net[s].out
         /\ k.talk = "none"
    <3>1. net[s] \in Link
      BY NetFacts
    <3> QED BY <2>10, <3>1 DEF Link
  <2>13. net' = [net EXCEPT ![c] = l, ![s] = k]
    BY <1>8, <2>10, <2>11
  <2> HIDE DEF l, k
  <2>14. /\ net' \in [Socket -> Link] /\ net'[c] = l /\ net'[s] = k
         /\ \A t \in Socket \ {s, c} : net'[t] = net[t]
    BY <2>2, <2>12, <2>13, NetFacts
  <2>15. StreamsSound'
    <3>1. l.wire + l.held <= l.came /\ k.wire + k.held <= k.came
      BY <2>10, <2>12
    <3>2. \A t \in Socket \ Tls : net'[t].held = 0 /\ net'[t].talk = "none"
      BY <1>2, <2>12, <2>14 DEF StreamsSound, NetInv
    <3>3. \A t \in Socket \ Listener : net'[t].wire + net'[t].held <= net'[t].came
      BY <2>12, <2>14, <3>1 DEF StreamsSound, NetInv
    <3> QED BY <3>2, <3>3 DEF StreamsSound
  <2>16. RestStep
    BY <1>5, <2>1, <2>14, <2>15, RestFacts
  <2>17. Frame(r, {s, c}, None)
    BY <2>1, <2>6, <2>7, <2>8, <2>9, <2>16 DEF Frame
  <2>18. ASSUME KeptInv, OneAtATime PROVE Keeps(r, {s, c}, None)
    <3>1. Alone(r, s)
      BY <1>5, <2>18
    <3>2. ASSUME NEW i \in DOMAIN reqs \ {r}, Pending(i), ~ Handshake(i)
          PROVE  /\ fd[reqs[i].sock] # None /\ fd'[reqs[i].sock] = fd[reqs[i].sock]
                 /\ SameWants(net[reqs[i].sock], net'[reqs[i].sock])
      <4>1. fd[reqs[i].sock] # None /\ reqs[i].sock \in Socket
        BY <2>18, <3>2, NetFacts DEF KeptInv, RequestsKept, Handshake
      <4>2. reqs[i].sock # s
        BY <3>1, <3>2 DEF Alone
      <4>3. net'[reqs[i].sock] = net[reqs[i].sock]
        BY <2>3, <2>14, <4>1, <4>2
      <4> QED BY <2>3, <2>5, <4>1, <4>2, <4>3 DEF SameWants
    <3>3. ASSUME NEW h \in Fd, table[h] # None, reqs[table[h].req].sock \in {s, c}, fd[reqs[table[h].req].sock] = h
          PROVE  /\ ~ Pending(table[h].req) /\ table[h].req # r
                 /\ r \in DOMAIN reqs' /\ reqs'[r].op = "upgrade" /\ reqs'[r].sock = reqs[table[h].req].sock
      <4>1. reqs[table[h].req].sock = s
        BY <2>2, <2>3, <3>3
      <4>2. table[h].req \in DOMAIN reqs
        BY <2>4, <3>3
      <4> QED BY <1>5, <2>1, <3>1, <4>1, <4>2 DEF Alone
    <3>4. r \notin DOMAIN reqs /\ Pending(r)' => Alone(r, reqs'[r].sock)
      BY <1>5, <2>1, <3>1
    <3> QED BY <2>8, <3>2, <3>3, <3>4 DEF Keeps
  <2>19. ASSUME BytesInv PROVE Bytes(r)
    <3>1. \A t, o : /\ Moved(r, t, "read", o) = 0 /\ Moved(r, t, "read", o)' = 0
                    /\ Moved(r, t, "write", o) = 0 /\ Moved(r, t, "write", o)' = 0
      BY <1>5, <2>1 DEF Moved, MovedBy
    <3>2. net[c].came = net[c].wire + net[c].held /\ net[c].out = 0
      BY <2>2, <2>3, <2>19, UnbornEmpty
    <3>3. ASSUME NEW t \in Socket
          PROVE  /\ t \notin Listener =>
                      net'[t].came + net[t].wire + net[t].held + 0 = net[t].came + net'[t].wire + net'[t].held + 0
                 /\ net'[t].out + 0 = net[t].out + 0
      <4>1. CASE t = s
        <5>1. b + w + 0 + 0 = a + 0 + 0 + 0
          BY <2>10, <2>11
        <5> QED BY <2>10, <2>12, <2>14, <4>1, <5>1
      <4>2. CASE t = c
        <5>1. PICK x \in Nat, y \in Nat, z \in Nat : x = net[c].came /\ y = net[c].wire /\ z = net[c].held
          BY NetFacts DEF Link
        <5>2. w + y + z + 0 = x + w + 0 + 0
          BY <3>2, <5>1
        <5> QED BY <2>12, <2>14, <3>2, <4>2, <5>1, <5>2
      <4>3. CASE t \notin {s, c}
        BY <2>14, <4>3
      <4> QED BY <4>1, <4>2, <4>3
    <3> QED BY <3>1, <3>3 DEF Bytes
  <2>20. {s, c} \in SUBSET Socket
    OBVIOUS
  <2> QED BY <1>5, <2>17, <2>18, <2>19, <2>20 DEF GoodStep, Good
<1> QED BY <1>6, <1>7, <1>8

-----------------------------------------------------------------------------
(* The loop, the handshake threads and the world outside.                  *)

LEMMA QuietGood ==
  ASSUME NetInv, UNCHANGED <<sockets, table, reqs>>, RestStep,
         \A i : Handshake(i)' <=> Handshake(i),
         shaking' \subseteq DOMAIN reqs, results' \in Seq([req : DOMAIN reqs, ok : BOOLEAN]),
         Bytes(0), \A t \in Socket : SameWants(net[t], net'[t])
  PROVE  GoodStep
<1>1. RequestStep(0) /\ 0 \notin DOMAIN reqs'
  BY NoRequest
<1>2. SocketStep(0, {}, None)
  BY SameSockets
<1>3. table \in [Fd -> Entry \cup {None}] /\ None \notin Fd
  BY NetFacts
<1>4. EntryStep(0, None)
  BY <1>3 DEF EntryStep
<1>5. ShakingStep(0, None)
  <2>1. ~ Handshake(0)'
    BY <1>1, HandshakeFacts
  <2> QED BY <2>1 DEF ShakingStep
<1>6. WaitingStep(0, None)
  BY <1>1 DEF WaitingStep
<1>7. Frame(0, {}, None)
  BY <1>1, <1>2, <1>4, <1>5, <1>6 DEF Frame
<1>8. ASSUME KeptInv PROVE Keeps(0, {}, None)
  <2>1. \A i \in DOMAIN reqs : Pending(i) /\ ~ Handshake(i) =>
          fd[reqs[i].sock] # None /\ SameWants(net[reqs[i].sock], net'[reqs[i].sock])
    BY <1>8, NetFacts DEF KeptInv, RequestsKept, Handshake
  <2> QED BY <1>1, <2>1 DEF Keeps, sockets
<1>9. 0 \in Nat /\ {} \in SUBSET Socket
  OBVIOUS
<1> QED BY <1>7, <1>8, <1>9 DEF GoodStep, Good

\* A step of the loop, of a thread that wakes it, or outside.
LEMMA StillGood ==
  ASSUME NetInv, UNCHANGED <<sockets, table, reqs, shaking, results>>, RestStep, Bytes(0),
         \A t \in Socket : SameWants(net[t], net'[t])
  PROVE  GoodStep
<1>1. \A i : Handshake(i)' <=> Handshake(i)
  BY DEF Handshake
<1>2. shaking' \subseteq DOMAIN reqs /\ results' \in Seq([req : DOMAIN reqs, ok : BOOLEAN])
  BY DEF NetInv, TypeOK
<1> QED BY <1>1, <1>2, QuietGood

LEMMA SameNet ==
  ASSUME NetInv, UNCHANGED <<reqs, net>>, LoopKept
  PROVE  RestStep /\ Bytes(0) /\ \A t \in Socket : SameWants(net[t], net'[t])
<1>1. RequestStep(0) /\ 0 \notin DOMAIN reqs'
  BY NoRequest
<1>2. RestStep
  BY <1>1, NetFacts, RestFacts DEF NetInv, StreamsSound
<1>3. Bytes(0)
  BY <1>1, NoBytes
<1> QED BY <1>2, <1>3 DEF SameWants

LEMMA HandshakeSet ==
  ASSUME NetInv
  PROVE  \A i : Handshake(i) <=> i \in shaking \/ \E x \in ToSet(results) : x.req = i
<1>1. results \in Seq([req : DOMAIN reqs, ok : BOOLEAN])
  BY DEF NetInv, TypeOK
<1> QED BY <1>1 DEF Handshake, ToSet

LEMMA ShakenGood ==
  ASSUME NetInv, NEW r \in shaking, NEW ok \in BOOLEAN, Shaken(r, ok)
  PROVE  GoodStep
<1>1. /\ shaking \subseteq DOMAIN reqs /\ posted \subseteq DOMAIN reqs
      /\ results \in Seq([req : DOMAIN reqs, ok : BOOLEAN])
  BY DEF NetInv, TypeOK
<1> DEFINE x == [req |-> r, ok |-> ok]
<1>2. /\ shaking' = shaking \ {r} /\ posted' = posted \cup {r} /\ results' = <<x>> \o results
      /\ UNCHANGED <<sockets, table, reqs, net, woken, loop>>
  BY DEF Shaken
<1>3. x \in [req : DOMAIN reqs, ok : BOOLEAN] /\ x.req = r
  BY <1>1
<1> HIDE DEF x
<1>4. results' \in Seq([req : DOMAIN reqs, ok : BOOLEAN]) /\ ToSet(results') = ToSet(results) \cup {x}
  <2>1. \A D : results \in Seq(D) /\ x \in D =>
          <<x>> \o results \in Seq(D) /\ ToSet(<<x>> \o results) = ToSet(results) \cup {x}
    BY ConsFacts
  <2> QED BY <1>1, <1>2, <1>3, <2>1
<1>5. \A i : Handshake(i)' <=> i \in shaking' \/ \E y \in ToSet(results') : y.req = i
  BY <1>4 DEF Handshake, ToSet
<1>6. \A i : Handshake(i)' <=> Handshake(i)
  BY <1>2, <1>3, <1>4, <1>5, HandshakeSet
<1>7. RequestStep(0) /\ 0 \notin DOMAIN reqs'
  BY <1>2, NoRequest
<1>8. Bytes(0)
  BY <1>2, <1>7, NoBytes
<1>9. RestStep
  BY <1>1, <1>2, NetFacts DEF NetInv, TypeOK, RestStep, StreamsSound, loop
<1>10. \A t \in Socket : SameWants(net[t], net'[t])
  BY <1>2 DEF SameWants
<1> QED BY <1>1, <1>2, <1>4, <1>6, <1>8, <1>9, <1>10, QuietGood

LEMMA WakeGood ==
  ASSUME NetInv, NEW r \in posted, Wake(r)
  PROVE  GoodStep
<1>1. /\ posted' = posted \ {r} /\ woken' = TRUE
      /\ UNCHANGED <<sockets, table, reqs, net, shaking, results, loop>>
  BY DEF Wake
<1>2. RequestStep(0) /\ 0 \notin DOMAIN reqs'
  BY <1>1, NoRequest
<1>3. Bytes(0)
  BY <1>1, <1>2, NoBytes
<1>4. RestStep
  BY <1>1, NetFacts DEF NetInv, TypeOK, RestStep, StreamsSound, loop
<1>5. \A t \in Socket : SameWants(net[t], net'[t])
  BY <1>1 DEF SameWants
<1> QED BY <1>1, <1>3, <1>4, <1>5, StillGood

LEMMA WaitGood ==
  ASSUME NetInv, WaitEvents \/ WaitTimer
  PROVE  GoodStep
<1>1. UNCHANGED <<sockets, table, reqs, net, shaking, results>> /\ LoopKept
  <2>1. CASE WaitEvents
    <3>1. Events \subseteq Event
      <4>1. fd \in [Socket -> Fd \cup {None}]
        BY NetFacts
      <4> QED BY <4>1 DEF Events, Event
    <3>2. [fd |-> WakeFd, ready |-> {"read"}] \in Event
      BY DEF Event
    <3> QED BY <2>1, <3>1, <3>2 DEF WaitEvents, LoopKept, NetInv, TypeOK, threads
  <2>2. CASE WaitTimer
    BY <2>2 DEF WaitTimer, LoopKept, NetInv, TypeOK, threads
  <2> QED BY <2>1, <2>2
<1> QED BY <1>1, SameNet, StillGood

LEMMA OutsideGood ==
  ASSUME NetInv, NEW s \in Socket, Outside(s), NEW l \in Link, net' = [net EXCEPT ![s] = l],
         l.out = net[s].out, s \notin Tls => l.held = 0 /\ l.talk = "none", SameWants(net[s], l),
         s \notin Listener => /\ l.wire + l.held <= l.came
                              /\ l.came + net[s].wire + net[s].held = net[s].came + l.wire + l.held
  PROVE  GoodStep
<1>1. UNCHANGED <<sockets, table, reqs, shaking, results, posted, woken, loop>>
  BY DEF Outside, threads
<1>2. RequestStep(0) /\ 0 \notin DOMAIN reqs'
  BY <1>1, NoRequest
<1>3. net' \in [Socket -> Link] /\ net'[s] = l /\ \A t \in Socket \ {s} : net'[t] = net[t]
  BY NetFacts
<1>4. RestStep
  <2>1. LoopKept
    BY <1>1, LoopFacts
  <2>2. StreamsSound'
    BY <1>3 DEF NetInv, StreamsSound
  <2> QED BY <1>2, <1>3, <2>1, <2>2, RestFacts
<1>5. Bytes(0)
  <2>1. \A t, op, o : Moved(0, t, op, o) = 0 /\ Moved(0, t, op, o)' = 0
    BY <1>1, <1>2 DEF Moved
  <2>2. ASSUME NEW t \in Socket
        PROVE  /\ t \notin Listener =>
                    net'[t].came + net[t].wire + net[t].held + 0 = net[t].came + net'[t].wire + net'[t].held + 0
               /\ net'[t].out + 0 = net[t].out + 0
    <3>1. CASE t = s
      <4>1. PICK a \in Nat, w \in Nat, h \in Nat, b \in Nat, x \in Nat, y \in Nat :
              /\ a = net[s].came /\ w = net[s].wire /\ h = net[s].held
              /\ b = l.came /\ x = l.wire /\ y = l.held
        BY NetFacts DEF Link
      <4>2. s \notin Listener => b + w + h + 0 = a + x + y + 0
        BY <4>1
      <4> QED BY <1>3, <3>1, <4>1, <4>2
    <3>2. CASE t # s
      BY <1>3, <3>2
    <3> QED BY <3>1, <3>2
  <2> QED BY <2>1, <2>2 DEF Bytes
<1>6. \A t \in Socket : SameWants(net[t], net'[t])
  BY <1>3 DEF SameWants
<1> QED BY <1>1, <1>4, <1>5, <1>6, StillGood

LEMMA WorldGood ==
  ASSUME NetInv, NEW s \in Socket,
         \/ Arrive(s) \/ Drain(s) \/ Ask(s) \/ Reply(s)
         \/ (\E how \in {"eof", "reset"} : End(s, how)) \/ (\E how \in {"ok", "refused"} : Answer(s, how))
  PROVE  GoodStep
<1>1. net \in [Socket -> Link] /\ net[s] \in Link /\ StreamsSound
  BY NetFacts DEF NetInv
<1>2. PICK a \in Nat, w \in Nat, h \in Nat : a = net[s].came /\ w = net[s].wire /\ h = net[s].held
  BY <1>1 DEF Link
<1>3. (s \notin Tls => h = 0 /\ net[s].talk = "none") /\ (s \notin Listener => w + h <= a)
  BY <1>1, <1>2 DEF StreamsSound
<1>4. Capacity \in 0 .. Capacity
  BY NetworkAssumption
<1>5. ASSUME NEW l \in Link, Outside(s), net' = [net EXCEPT ![s] = l], l.out = net[s].out,
             l.came = a, l.wire = w, l.held = h, s \notin Tls => l.talk = "none", SameWants(net[s], l)
      PROVE  GoodStep
  <2>1. l.came + net[s].wire + net[s].held = net[s].came + l.wire + l.held
    BY <1>2, <1>5
  <2> QED BY <1>2, <1>3, <1>5, <2>1, OutsideGood
<1>6. CASE Arrive(s)
  <2>a. PICK b \in Nat, v \in Nat : b = a + 1 /\ v = w + 1
    OBVIOUS
  <2> DEFINE l == [net[s] EXCEPT !.came = b, !.wire = v]
  <2>1. Outside(s) /\ net' = [net EXCEPT ![s] = l]
    BY <1>1, <1>2, <1>6, <2>a DEF Arrive
  <2>2. l \in Link /\ l.out = net[s].out /\ l.came = b /\ l.wire = v /\ l.held = h
        /\ l.talk = net[s].talk
    BY <1>1, <1>2 DEF Link
  <2> HIDE DEF l
  <2>3. s \notin Listener => v + h <= b
    BY <1>3, <2>a
  <2>4. b + w + h = a + v + h
    BY <2>a
  <2> QED BY <1>2, <1>3, <2>1, <2>2, <2>3, <2>4, OutsideGood, WantsFacts
<1>7. CASE Drain(s)
  <2> DEFINE l == [net[s] EXCEPT !.room = Capacity]
  <2>1. Outside(s) /\ net' = [net EXCEPT ![s] = l]
    BY <1>1, <1>7 DEF Drain
  <2>2. l \in Link /\ l.out = net[s].out /\ l.came = a /\ l.wire = w /\ l.held = h
        /\ l.talk = net[s].talk
    BY <1>1, <1>2, <1>4 DEF Link
  <2> HIDE DEF l
  <2> QED BY <1>3, <1>5, <2>1, <2>2, WantsFacts
<1>8. ASSUME NEW how \in {"eof", "reset"}, End(s, how) PROVE GoodStep
  <2> DEFINE l == [net[s] EXCEPT !.over = how]
  <2>1. Outside(s) /\ net' = [net EXCEPT ![s] = l]
    BY <1>1, <1>8 DEF End
  <2>2. l \in Link /\ l.out = net[s].out /\ l.came = a /\ l.wire = w /\ l.held = h
        /\ l.talk = net[s].talk
    BY <1>1, <1>2 DEF Link
  <2> HIDE DEF l
  <2> QED BY <1>3, <1>5, <2>1, <2>2, WantsFacts
<1>9. ASSUME NEW how \in {"ok", "refused"}, Answer(s, how) PROVE GoodStep
  <2> DEFINE l == [net[s] EXCEPT !.dial = how]
  <2>1. Outside(s) /\ net' = [net EXCEPT ![s] = l]
    BY <1>1, <1>9 DEF Answer
  <2>2. l \in Link /\ l.out = net[s].out /\ l.came = a /\ l.wire = w /\ l.held = h
        /\ l.talk = net[s].talk
    BY <1>1, <1>2 DEF Link
  <2> HIDE DEF l
  <2> QED BY <1>3, <1>5, <2>1, <2>2, WantsFacts
<1>10. ASSUME s \in Tls, NEW talk \in {"asked", "answered"}, Outside(s), net' = [net EXCEPT ![s].talk = talk],
              \/ talk = "asked" /\ net[s].talk = "none"
              \/ talk = "answered" /\ net[s].talk = "awaited"
       PROVE  GoodStep
  <2> DEFINE l == [net[s] EXCEPT !.talk = talk]
  <2>1. net' = [net EXCEPT ![s] = l]
    BY <1>1, <1>10
  <2>2. l \in Link /\ l.out = net[s].out /\ l.came = a /\ l.wire = w /\ l.held = h /\ l.talk = talk
    BY <1>1, <1>2 DEF Link
  <2> HIDE DEF l
  <2> QED BY <1>5, <1>10, <2>1, <2>2, WantsFacts
<1>11. CASE Ask(s)
  BY <1>10, <1>11 DEF Ask
<1>12. CASE Reply(s)
  <2>1. s \in Tls
    BY <1>3, <1>12 DEF Reply
  <2> QED BY <1>10, <1>12, <2>1 DEF Reply
<1> QED BY <1>6, <1>7, <1>8, <1>9, <1>11, <1>12

LEMMA PollGood ==
  ASSUME NetInv, PollResults
  PROVE  GoodStep
<1>1. /\ phase = "poll" /\ UNCHANGED <<fd, table, net, shaking, posted, woken, batch>>
      /\ posted \subseteq DOMAIN reqs /\ shaking \subseteq DOMAIN reqs
      /\ results \in Seq([req : DOMAIN reqs, ok : BOOLEAN])
  BY DEF PollResults, NetInv, TypeOK
<1>2. CASE results = <<>>
  <2>1. phase' = "run" /\ UNCHANGED <<stage, reqs, results>>
    BY <1>2 DEF PollResults
  <2>2. LoopKept
    BY <1>1, <2>1 DEF LoopKept, NetInv, TypeOK
  <2> QED BY <1>1, <2>1, <2>2, SameNet, StillGood DEF sockets
<1>3. CASE results # <<>>
  <2>1. PICK x, r, c : x = Head(results) /\ r = x.req /\ c = reqs[r].new
    OBVIOUS
  <2>2. x \in [req : DOMAIN reqs, ok : BOOLEAN] /\ Tail(results) \in Seq([req : DOMAIN reqs, ok : BOOLEAN])
        /\ ToSet(results) = ToSet(Tail(results)) \cup {x}
    <3>1. \A D : results \in Seq(D) => /\ Tail(results) \in Seq(D) /\ Head(results) \in D
                                       /\ ToSet(results) = ToSet(Tail(results)) \cup {Head(results)}
      BY <1>3, TailFacts
    <3> QED BY <1>1, <2>1, <3>1
  <2>3. PICK o \in Outcome : /\ results' = Tail(results) /\ phase' = phase /\ reqs' = Settled(reqs, r, o)
                             /\ \/ stage' = stage
                                \/ Pending(r) /\ stage' = [stage EXCEPT ![c] = "open"]
    BY <1>3, <2>1 DEF PollResults, Outcome
  <2>4. r \in DOMAIN reqs /\ r \in Nat /\ c \in Socket /\ Handshake(r) /\ reqs[r].op \in Making
    <3>1. r \in DOMAIN reqs /\ c \in Socket /\ r \in Nat
      BY <2>1, <2>2, NetFacts
    <3>2. Handshake(r)
      BY <2>1, <2>2, HandshakeSet
    <3> QED BY <3>1, <3>2 DEF NetInv, MakingSound
  <2>5. /\ RequestStep(r) /\ r \in DOMAIN reqs' /\ reqs'[r].state # "pending"
        /\ reqs'[r].op = reqs[r].op
    <3>1. Start(reqs, r)
      BY <2>4 DEF Start
    <3> QED BY <2>3, <2>4, <3>1, SettledStep DEF Making
  <2>6. ShakingStep(r, None)
    <3>1. DOMAIN reqs \subseteq DOMAIN reqs'
      BY <2>5 DEF RequestStep
    <3>2. results' \in Seq([req : DOMAIN reqs', ok : BOOLEAN])
      <4>1. \A D, E : D \subseteq E /\ Tail(results) \in Seq(D) => Tail(results) \in Seq(E)
        OBVIOUS
      <4>2. [req : DOMAIN reqs, ok : BOOLEAN] \subseteq [req : DOMAIN reqs', ok : BOOLEAN]
        BY <3>1
      <4> QED BY <2>2, <2>3, <4>1, <4>2
    <3>3. \A i : Handshake(i)' <=> i \in shaking' \/ \E y \in ToSet(results') : y.req = i
      BY <3>2 DEF Handshake, ToSet
    <3>4. \A i : i # r => (Handshake(i)' <=> Handshake(i))
      BY <1>1, <2>1, <2>2, <2>3, <3>3, HandshakeSet
    <3> QED BY <1>1, <2>4, <3>1, <3>2, <3>4 DEF ShakingStep
  <2>7. /\ fd \in [Socket -> Fd \cup {None}] /\ stage \in [Socket -> {"unborn", "made", "open", "closed"}]
        /\ \A t, u \in Socket : fd[t] = fd[u] /\ fd[t] # None => t = u
        /\ \A t \in Socket : fd[t] # None <=> stage[t] \in {"made", "open"}
        /\ table \in [Fd -> Entry \cup {None}] /\ None \notin Fd
    BY NetFacts DEF NetInv, SocketsSound
  <2>8. SocketStep(r, {c}, None)
    <3>1. CASE stage' = stage
      <4>1. \A h \in Fd : table[h] # None /\ reqs[table[h].req].op = "connect" =>
              stage[reqs[table[h].req].sock] = "made"
        BY DEF NetInv, EntrySound
      <4> QED BY <1>1, <2>4, <2>7, <3>1, <4>1 DEF SocketStep
    <3>2. CASE Pending(r) /\ stage' = [stage EXCEPT ![c] = "open"]
      <4>1. /\ stage' \in [Socket -> {"unborn", "made", "open", "closed"}] /\ stage'[c] = "open"
            /\ \A t \in Socket \ {c} : stage'[t] = stage[t]
        BY <2>4, <2>7, <3>2
      <4>2. /\ stage[c] = "made"
            /\ \A i \in DOMAIN reqs \ {r} : Pending(i) /\ reqs[i].op \in Making => reqs[i].new # c
        BY <2>1, <2>4, <3>2 DEF NetInv, MakingSound
      <4>3. \A h \in Fd : table[h] # None /\ reqs[table[h].req].op = "connect" => reqs[table[h].req].sock # c
        <5>1. ASSUME NEW h \in Fd, table[h] # None, reqs[table[h].req].op = "connect"
              PROVE  /\ ~ Handshake(table[h].req)
                     /\ \A i \in DOMAIN reqs :
                          Pending(i) /\ reqs[i].op \in Making /\ reqs[i].new = reqs[table[h].req].sock => i = table[h].req
          BY <5>1 DEF NetInv, EntrySound
        <5> QED BY <2>1, <2>4, <3>2, <5>1
      <4> QED BY <1>1, <2>7, <4>1, <4>2, <4>3 DEF SocketStep
    <3> QED BY <2>3, <3>1, <3>2
  <2>9. EntryStep(r, None)
    BY <1>1, <2>7 DEF EntryStep
  <2>10. WaitingStep(r, None)
    BY <2>4, <2>5 DEF WaitingStep, Making
  <2>11. RestStep
    <3>1. LoopKept
      BY <1>1, <2>3 DEF LoopKept, NetInv, TypeOK
    <3> QED BY <1>1, <2>5, <3>1, NetFacts, RestFacts DEF NetInv, StreamsSound
  <2>12. Frame(r, {c}, None)
    BY <2>5, <2>6, <2>8, <2>9, <2>10, <2>11 DEF Frame
  <2>13. ASSUME KeptInv PROVE Keeps(r, {c}, None)
    <3>1. \A i \in DOMAIN reqs : Pending(i) /\ ~ Handshake(i) => fd[reqs[i].sock] # None
      BY <2>13 DEF KeptInv, RequestsKept, Handshake
    <3>2. ~ Pending(r)'
      BY <2>5 DEF Pending
    <3> QED BY <1>1, <3>1, <3>2 DEF Keeps, SameWants
  <2>14. Bytes(r)
    BY <1>1, <2>4, <2>5, NoBytes DEF Making
  <2>15. {c} \in SUBSET Socket
    BY <2>4
  <2> QED BY <2>4, <2>12, <2>13, <2>14, <2>15 DEF GoodStep, Good
<1> QED BY <1>2, <1>3

\* The entry of an event is for request r, whose callback runs.
Calls(g, r) == g \in Fd /\ table[g] # None /\ r = table[g].req

LEMMA EntryFacts ==
  ASSUME NetInv, NEW g, NEW r, Calls(g, r)
  PROVE  /\ r \in DOMAIN reqs /\ r \in Nat /\ Start(reqs, r) /\ WellFormed(reqs[r])
         /\ reqs[r].sock \in Socket /\ reqs[r].new \in Socket
         /\ reqs[r].op \in {"accept", "connect"} =>
              /\ fd[reqs[r].sock] = g /\ ~ Handshake(r)
              /\ \A h \in Fd \ {g} : table[h] # None => table[h].req # r
         /\ KeptInv /\ Pending(r) => fd[reqs[r].sock] # None /\ Alone(r, reqs[r].sock)
<1>1. /\ r \in DOMAIN reqs
      /\ reqs[r].op \in {"accept", "connect"} => fd[reqs[r].sock] = g /\ ~ Handshake(r)
  BY DEF Calls, NetInv, EntrySound
<1>2. r \in Nat /\ Start(reqs, r) /\ WellFormed(reqs[r]) /\ reqs[r].sock \in Socket /\ reqs[r].new \in Socket
  BY <1>1, NetFacts DEF Start, NetInv
<1>3. ASSUME reqs[r].op \in {"accept", "connect"}, NEW h \in Fd \ {g}, table[h] # None, table[h].req = r PROVE FALSE
  BY <1>1, <1>3 DEF NetInv, EntrySound
<1>4. ASSUME KeptInv, Pending(r) PROVE fd[reqs[r].sock] # None /\ Alone(r, reqs[r].sock)
  <2>1. g # None
    BY NetFacts DEF Calls
  <2>2. fd[reqs[r].sock] = g
    BY <1>4 DEF KeptInv, OwnDescriptor, Calls
  <2>3. Alone(r, reqs[r].sock)
    BY <1>1, <1>4 DEF KeptInv, Single, Alone
  <2> QED BY <2>1, <2>2, <2>3
<1> QED BY <1>1, <1>2, <1>3, <1>4

LEMMA AcceptCbGood ==
  ASSUME NetInv, NEW g, NEW r, Calls(g, r), reqs[r].op = "accept", NEW ready, AcceptCb(r, ready),
         UNCHANGED results, LoopKept
  PROVE  GoodStep
<1>1. PICK s, c : s = reqs[r].sock /\ c = reqs[r].new
  OBVIOUS
<1>2. /\ r \in DOMAIN reqs /\ r \in Nat /\ Start(reqs, r) /\ WellFormed(reqs[r])
      /\ s \in Socket /\ c \in Socket
      /\ fd[s] = g /\ ~ Handshake(r)
      /\ \A h \in Fd \ {g} : table[h] # None => table[h].req # r
  BY <1>1, EntryFacts
<1>3. s \in Listener /\ c \in Tcp \cup Tls
  BY <1>1, <1>2 DEF WellFormed, Making
<1>4. KeptInv /\ Pending(r) => fd[s] # None /\ Alone(r, s)
  BY <1>1, EntryFacts
<1>5. CASE UNCHANGED <<reqs, table, net, sockets, shaking>>
  BY <1>5, SameNet, StillGood
<1>6. CASE Pending(r) /\ MayAccept(s) /\ \E failed \in {table, Del(g)} : TryAccept(reqs, r, Del(g), failed)
  <2>1. PICK failed \in {table, Del(g)} : TryAccept(reqs, r, Del(g), failed)
    BY <1>6
  <2>2. /\ stage[c] = "unborn" /\ fd[c] = None
        /\ \A i \in DOMAIN reqs \ {r} : Pending(i) /\ reqs[i].op \in Making => reqs[i].new # c
    BY <1>1, <1>2, <1>6 DEF NetInv, MakingSound, SocketsSound, Making
  <2>3. \A h \in Fd : table[h] # None /\ reqs[table[h].req].op = "connect" => reqs[table[h].req].sock # c
    <3>1. \A h \in Fd : table[h] # None /\ reqs[table[h].req].op = "connect" => stage[reqs[table[h].req].sock] = "made"
      BY DEF NetInv, EntrySound
    <3> QED BY <2>2, <3>1
  <2>4. ASSUME NEW f \in Fd, \A t \in Socket : fd[t] # f, table' = Del(g)
        PROVE  CanMake(reqs, r, c, f, g)
    <3>1. /\ table' \in [Fd -> Entry \cup {None}] /\ \A h \in Fd \ {g} : table'[h] = table[h]
          /\ table'[g] = None
      BY <2>4, NetFacts DEF Del, Calls
    <3>2. reqs[r].state = "pending"
      BY <1>6 DEF Pending
    <3>3. g \in Fd /\ table[g] # None /\ table[g].req = r
      BY DEF Calls
    <3> QED BY <1>1, <1>2, <2>2, <2>3, <2>4, <3>1, <3>2, <3>3 DEF CanMake
  <2>5. reqs[r].state = "pending" /\ g \in Fd \cup {None}
    BY <1>6 DEF Pending, Calls
  <2>6. MayAccept(s) /\ failed \in {table, Del(fd[s])} /\ TryAccept(reqs, r, Del(g), failed)
    BY <1>2, <1>6, <2>1
  <2>7. \A f \in Fd : (\A t \in Socket : fd[t] # f) /\ table' = Del(g) => CanMake(reqs, r, c, f, g)
    BY <2>4
  <2>8. /\ Start(reqs, r) /\ reqs[r].sock = s /\ reqs[r].new = c /\ ~ Handshake(r)
        /\ KeptInv /\ OneAtATime => fd[s] # None /\ Alone(r, s)
    BY <1>1, <1>2, <1>4, <1>6
  <2> QED BY <1>3, <2>5, <2>6, <2>7, <2>8, TryAcceptGood
<1>7. \/ UNCHANGED <<reqs, table, net, sockets, shaking>>
      \/ Pending(r) /\ MayAccept(s) /\ \E failed \in {table, Del(g)} : TryAccept(reqs, r, Del(g), failed)
  BY <1>1, <1>2 DEF AcceptCb
<1> QED BY <1>5, <1>6, <1>7

LEMMA ConnectCbGood ==
  ASSUME NetInv, NEW g, NEW r, Calls(g, r), reqs[r].op = "connect", ConnectCb(r),
         UNCHANGED results, LoopKept
  PROVE  GoodStep
<1>1. PICK c : c = reqs[r].sock
  OBVIOUS
<1>2. /\ r \in DOMAIN reqs /\ r \in Nat /\ Start(reqs, r) /\ WellFormed(reqs[r])
      /\ c \in Socket /\ reqs[r].new \in Socket /\ fd[c] = g /\ ~ Handshake(r)
      /\ \A h \in Fd \ {g} : table[h] # None => table[h].req # r
  BY <1>1, EntryFacts
<1>3. c \in Tcp \cup Tls /\ reqs[r].new = c
  BY <1>1, <1>2 DEF WellFormed, Making
<1>4. g \in Fd /\ table[g] # None /\ table[g].req = r
  BY DEF Calls
<1>5. /\ stage[c] = "made"
      /\ \A i \in DOMAIN reqs \ {r} : Pending(i) /\ reqs[i].op \in Making => reqs[i].new # c
  BY <1>1, <1>4 DEF NetInv, EntrySound
<1>6. \A h \in Fd \ {g} : table[h] # None /\ reqs[table[h].req].op \in {"accept", "connect"} => reqs[table[h].req].sock # c
  <2>1. ASSUME NEW h \in Fd, table[h] # None, reqs[table[h].req].op \in {"accept", "connect"}
        PROVE  fd[reqs[table[h].req].sock] = h
    BY <2>1 DEF NetInv, EntrySound
  <2> QED BY <1>2, <2>1
<1>7. /\ fd \in [Socket -> Fd \cup {None}] /\ stage \in [Socket -> {"unborn", "made", "open", "closed"}]
      /\ table \in [Fd -> Entry \cup {None}] /\ None \notin Fd
      /\ \A t, u \in Socket : fd[t] = fd[u] /\ fd[t] # None => t = u
  BY NetFacts DEF NetInv, SocketsSound
<1>8. CASE UNCHANGED <<reqs, table, net, sockets, shaking>>
  BY <1>8, SameNet, StillGood
<1>9. ASSUME table' = Del(g)
      PROVE  table' \in [Fd -> Entry \cup {None}] /\ table'[g] = None /\ \A h \in Fd \ {g} : table'[h] = table[h]
  BY <1>4, <1>7, <1>9 DEF Del
<1>10. CASE table' = Del(g) /\ UNCHANGED net /\ Established(reqs, r, c, g)
  <2>1. CanMake(reqs, r, c, g, g)
    <3>1. \A t \in Socket \ {c} : fd[t] # g
      BY <1>2, <1>4, <1>7
    <3>2. \A h \in Fd \ {g} : table[h] # None =>
            table[h].req # r /\ (reqs[table[h].req].op = "connect" => reqs[table[h].req].sock # c)
      BY <1>2, <1>6
    <3> QED BY <1>2, <1>3, <1>4, <1>5, <1>9, <1>10, <3>1, <3>2 DEF CanMake
  <2>2. net' \in [Socket -> Link] /\ StreamsSound'
    BY <1>10, NetFacts DEF NetInv, StreamsSound
  <2>3. g \in Fd /\ g \in Fd \cup {None}
    BY <1>4
  <2> QED BY <1>3, <1>10, <2>1, <2>2, <2>3, EstablishedStep
<1>11. CASE /\ table' = Del(g) /\ UNCHANGED net
            /\ reqs' = Settled(reqs, r, "failed")
            /\ fd' = [fd EXCEPT ![c] = None] /\ stage' = [stage EXCEPT ![c] = "closed"]
            /\ UNCHANGED shaking
  <2>1. /\ RequestStep(r) /\ r \in DOMAIN reqs' /\ reqs'[r].state # "pending"
        /\ reqs'[r].op = "connect"
    <3>1. "failed" \in Outcome
      BY DEF Outcome
    <3> QED BY <1>2, <1>11, <3>1, SettledStep
  <2>2. /\ fd' \in [Socket -> Fd \cup {None}] /\ stage' \in [Socket -> {"unborn", "made", "open", "closed"}]
        /\ \A t \in Socket \ {c} : fd'[t] = fd[t] /\ stage'[t] = stage[t]
        /\ fd'[c] = None /\ stage'[c] = "closed"
    BY <1>2, <1>7, <1>11
  <2>3. SocketStep(r, {c}, g)
    <3>1. \A t, u \in Socket : fd'[t] = fd'[u] /\ fd'[t] # None => t = u
      BY <1>7, <2>2
    <3> QED BY <1>2, <1>5, <1>6, <2>2, <3>1 DEF SocketStep
  <2>4. EntryStep(r, g)
    BY <1>9, <1>11 DEF EntryStep
  <2>5. ShakingStep(r, g)
    BY <1>11, <2>1, StillShaking
  <2>6. WaitingStep(r, g)
    BY <2>1 DEF WaitingStep
  <2>7. RestStep
    BY <1>11, <2>1, NetFacts, RestFacts DEF NetInv, StreamsSound
  <2>8. Frame(r, {c}, g)
    BY <2>1, <2>3, <2>4, <2>5, <2>6, <2>7 DEF Frame
  <2>9. ASSUME KeptInv PROVE Keeps(r, {c}, g)
    <3>1. ASSUME NEW i \in DOMAIN reqs \ {r}, Pending(i), ~ Handshake(i)
          PROVE  fd[reqs[i].sock] # g /\ fd'[reqs[i].sock] = fd[reqs[i].sock]
      <4>1. fd[reqs[i].sock] # g /\ reqs[i].sock \in Socket
        BY <1>4, <2>9, <3>1, OthersKeep, NetFacts
      <4> QED BY <1>2, <2>2, <4>1
    <3>2. ~ Pending(r)'
      BY <2>1 DEF Pending
    <3>3. \A h \in Fd \ {g} : table[h] # None /\ reqs[table[h].req].sock \in {c} /\ fd[reqs[table[h].req].sock] = h => FALSE
      BY <1>2
    <3> QED BY <1>11, <3>1, <3>2, <3>3 DEF Keeps, SameWants
  <2>10. Bytes(r)
    BY <1>11, <2>1, NoBytes
  <2>11. {c} \in SUBSET Socket /\ g \in Fd \cup {None}
    BY <1>2, <1>4
  <2> QED BY <1>2, <2>8, <2>9, <2>10, <2>11 DEF GoodStep, Good
<1>12. \/ UNCHANGED <<reqs, table, net, sockets, shaking>>
       \/ table' = Del(g) /\ UNCHANGED net /\ Established(reqs, r, c, g)
       \/ /\ table' = Del(g) /\ UNCHANGED net
          /\ reqs' = Settled(reqs, r, "failed")
          /\ fd' = [fd EXCEPT ![c] = None] /\ stage' = [stage EXCEPT ![c] = "closed"]
          /\ UNCHANGED shaking
  BY <1>1, <1>2 DEF ConnectCb
<1> QED BY <1>8, <1>10, <1>11, <1>12

LEMMA TransferCbGood ==
  ASSUME NetInv, NEW g, NEW r, Calls(g, r), NEW ready,
         \/ reqs[r].op = "read" /\ ReadCb(r, ready)
         \/ reqs[r].op = "write" /\ WriteCb(r, ready),
         UNCHANGED results, LoopKept
  PROVE  GoodStep
<1>1. PICK s : s = reqs[r].sock
  OBVIOUS
<1>2. r \in DOMAIN reqs /\ Start(reqs, r) /\ s \in Socket
  BY <1>1, EntryFacts
<1>3. KeptInv /\ Pending(r) => fd[s] # None /\ Alone(r, s)
  BY <1>1, EntryFacts
<1>4. reqs[r].op \in {"read", "write"} => stage[s] \in {"open", "closed"}
  BY <1>1, <1>2 DEF NetInv, SocketsSound
<1>5. CASE UNCHANGED <<reqs, table, net, sockets, shaking>>
  BY <1>5, SameNet, StillGood
<1>6. CASE reqs[r].op = "read" /\ Pending(r) /\ TryRead(reqs, r) /\ UNCHANGED <<sockets, shaking>>
  <2>1. reqs[r].state = "pending"
    BY <1>6 DEF Pending
  <2>2. ReadEffect(reqs, r, s)
    BY <1>1, <1>2, <1>6, <2>1, ReadFacts
  <2> QED BY <1>1, <1>2, <1>3, <1>4, <1>6, <2>1, <2>2, ReadGood
<1>7. CASE reqs[r].op = "write" /\ Pending(r) /\ TryWrite(reqs, r, Del(fd[s])) /\ UNCHANGED <<sockets, shaking>>
  <2>1. reqs[r].state = "pending"
    BY <1>7 DEF Pending
  <2>2. WriteEffect(reqs, r, s)
    BY <1>1, <1>2, <1>7, <2>1, WriteFacts
  <2> QED BY <1>1, <1>2, <1>3, <1>4, <1>7, <2>1, <2>2, WriteGood
<1> QED BY <1>1, <1>5, <1>6, <1>7 DEF ReadCb, WriteCb

LEMMA DispatchGood ==
  ASSUME NetInv, NEW e \in batch, Dispatch(e)
  PROVE  GoodStep
<1>1. UNCHANGED results /\ LoopKept
  <2>1. /\ batch' = batch \ {e} /\ UNCHANGED <<posted, results>>
        /\ phase' \in {"poll", phase} /\ woken' \in BOOLEAN
    BY DEF Dispatch
  <2> QED BY <2>1 DEF LoopKept, NetInv, TypeOK
<1>2. e.fd \in Fd \cup {WakeFd}
  <2>1. e \in Event
    BY DEF NetInv, TypeOK
  <2> QED BY <2>1 DEF Event
<1>3. CASE UNCHANGED <<reqs, table, net, sockets, shaking>>
  BY <1>1, <1>3, SameNet, StillGood
<1>4. CASE e.fd # WakeFd /\ table[e.fd] # None
  <2>1. PICK g, r, ready : g = e.fd /\ r = table[e.fd].req /\ ready = e.ready
    OBVIOUS
  <2>2. Calls(g, r)
    BY <1>2, <1>4, <2>1 DEF Calls
  <2>3. \/ reqs[r].op = "accept" /\ AcceptCb(r, ready)
        \/ reqs[r].op = "connect" /\ ConnectCb(r)
        \/ reqs[r].op = "read" /\ ReadCb(r, ready)
        \/ reqs[r].op = "write" /\ WriteCb(r, ready)
    BY <1>4, <2>1 DEF Dispatch
  <2> QED BY <1>1, <2>2, <2>3, AcceptCbGood, ConnectCbGood, TransferCbGood
<1> QED BY <1>3, <1>4 DEF Dispatch

-----------------------------------------------------------------------------
(* Every step is one of a request. *)

LEMMA NextGood ==
  ASSUME NetInv, Next
  PROVE  GoodStep
<1>1. CASE \E s \in Socket : Bind(s)
  BY <1>1, BindGood
<1>2. CASE \E c \in Socket : Connect(c)
  BY <1>2, ConnectGood
<1>3. CASE \E s, c \in Socket : Accept(s, c)
  BY <1>3, AcceptGood
<1>4. CASE \E s, c \in Socket : Upgrade(s, c)
  BY <1>4, UpgradeGood
<1>5. CASE \E s \in Socket, n \in ReadSize : Read(s, n)
  BY <1>5, ReadCallGood
<1>6. CASE \E s \in Socket, n \in WriteSize : Write(s, n)
  BY <1>6, WriteCallGood
<1>7. CASE \E s \in Socket : Close(s)
  BY <1>7, CloseGood
<1>8. CASE \E r \in 1 .. MaxRequests : Cancel(r)
  BY <1>8, CancelGood
<1>9. CASE PollResults
  BY <1>9, PollGood
<1>10. CASE WaitEvents \/ WaitTimer
  BY <1>10, WaitGood
<1>11. CASE \E e \in batch : Dispatch(e)
  BY <1>11, DispatchGood
<1>12. CASE \E r \in shaking, ok \in BOOLEAN : Shaken(r, ok)
  BY <1>12, ShakenGood
<1>13. CASE \E r \in posted : Wake(r)
  BY <1>13, WakeGood
<1>14. CASE \E s \in Socket : Arrive(s) \/ Drain(s) \/ Ask(s) \/ Reply(s)
  BY <1>14, WorldGood
<1>15. CASE \E s \in Socket, how \in {"eof", "reset"} : End(s, how)
  <2>1. PICK s \in Socket : \E how \in {"eof", "reset"} : End(s, how)
    BY <1>15
  <2> QED BY <2>1, WorldGood
<1>16. CASE \E c \in Socket, how \in {"ok", "refused"} : Answer(c, how)
  <2>1. PICK c \in Socket : \E how \in {"ok", "refused"} : Answer(c, how)
    BY <1>16
  <2> QED BY <2>1, WorldGood
<1> QED BY <1>1, <1>2, <1>3, <1>4, <1>5, <1>6, <1>7, <1>8, <1>9, <1>10, <1>11, <1>12, <1>13,
           <1>14, <1>15, <1>16 DEF Next, LoopStep

\* A collection takes the record of a request, and no entry, descriptor or byte.
LEMMA CollectGood ==
  ASSUME NetInv, NEW r \in 1 .. MaxRequests, Collect(r)
  PROVE  GoodStep
<1> DEFINE x == [reqs[r] EXCEPT !.alive = FALSE]
<1>1. /\ r \in DOMAIN reqs /\ r \in Nat /\ reqs' = [reqs EXCEPT ![r] = x]
      /\ UNCHANGED <<sockets, table, net, shaking, results>>
  BY DEF Collect, threads
<1>2. /\ reqs \in Seq(Request) /\ reqs[r] \in Request /\ WellFormed(reqs[r])
      /\ table \in [Fd -> Entry \cup {None}] /\ None \notin Fd
  BY <1>1, NetFacts DEF NetInv
<1>3. /\ x \in Request /\ x.op = reqs[r].op /\ x.sock = reqs[r].sock /\ x.new = reqs[r].new
      /\ x.state = reqs[r].state /\ x.moved = reqs[r].moved /\ x.size = reqs[r].size
  BY <1>2 DEF Request
<1> HIDE DEF x
<1>4. RequestStep(r) /\ r \in DOMAIN reqs' /\ reqs'[r] = x
  <2>1. WellFormed(x)
    BY <1>2, <1>3 DEF WellFormed
  <2>2. Start(reqs, r) /\ Changes(reqs[r], x)
    BY <1>1, <1>3, <2>1 DEF Start, Changes
  <2> QED BY <1>1, <2>2, PutStep
<1>5. RestStep
  <2>1. LoopKept
    BY LoopFacts DEF Collect, threads
  <2> QED BY <1>1, <1>4, <2>1, NetFacts, RestFacts DEF NetInv, StreamsSound
<1>6. ShakingStep(r, None) /\ \A i : Handshake(i)' <=> Handshake(i)
  BY <1>1, <1>4, StillShaking
<1>7. SocketStep(r, {}, None) /\ EntryStep(r, None) /\ fd' = fd /\ stage' = stage
  BY <1>1, <1>2, SameSockets DEF EntryStep, sockets
<1>8. WaitingStep(r, None)
  <2>1. x.op \in {"read", "write"} => stage[x.sock] \in {"open", "closed"}
    BY <1>1, <1>3 DEF NetInv, SocketsSound
  <2>2. ASSUME x.state = "pending", x.op \in Making
        PROVE  /\ stage[x.new] = IF x.op = "accept" /\ ~ Handshake(r) THEN "unborn" ELSE "made"
               /\ \A i \in DOMAIN reqs \ {r} : Pending(i) /\ reqs[i].op \in Making => reqs[i].new # x.new
    BY <1>1, <1>3, <2>2 DEF NetInv, MakingSound, Pending
  <2>3. ASSUME x.state = "pending", x.op \in Making, NEW f \in Fd, table[f] # None, table[f].req # r,
               reqs[table[f].req].op = "connect"
        PROVE  reqs[table[f].req].sock # x.new
    BY <1>1, <1>3, <2>3 DEF NetInv, EntrySound, Pending
  <2> QED BY <1>2, <1>4, <1>6, <1>7, <2>1, <2>2, <2>3 DEF WaitingStep
<1>9. Frame(r, {}, None)
  BY <1>4, <1>5, <1>6, <1>7, <1>8 DEF Frame
<1>10. ASSUME KeptInv PROVE Keeps(r, {}, None)
  <2>1. \A i \in DOMAIN reqs : Pending(i) => Handshake(i) \/ HasEntry(i)
    BY <1>10 DEF KeptInv, RequestsKept, Handshake, HasEntry
  <2>2. \A i \in DOMAIN reqs : Pending(i) /\ ~ Handshake(i) => fd[reqs[i].sock] # None
    BY <2>1 DEF HasEntry
  <2>3. Pending(r)' => Handshake(r)' \/ HasEntry(r)'
    BY <1>1, <1>3, <1>4, <1>6, <1>7, <2>1 DEF Pending, HasEntry
  <2> QED BY <1>1, <1>7, <2>2, <2>3 DEF Keeps, SameWants
<1>11. Bytes(r)
  BY <1>1, <1>3, <1>4 DEF Bytes, Moved, MovedBy
<1> QED BY <1>1, <1>9, <1>10, <1>11 DEF GoodStep, Good

\* The initial state has no requests.
LEMMA InitFacts ==
  ASSUME Init
  PROVE  NetInv /\ Single /\ RequestsKept /\ OwnDescriptor /\ NothingLost /\ WrittenOnce
<1>1. /\ reqs = <<>> /\ DOMAIN reqs = {} /\ Len(reqs) = 0
      /\ shaking = {} /\ posted = {} /\ results = <<>> /\ batch = {} /\ phase = "poll" /\ woken = FALSE
  BY DEF Init
<1>2. \A s \in Socket : fd[s] = None /\ stage[s] = "unborn"
  BY DEF Init
<1>3. \A f \in Fd : table[f] = None
  BY DEF Init
<1>4. \A s \in Socket : /\ net[s].came = 0 /\ net[s].wire = 0 /\ net[s].held = 0 /\ net[s].out = 0
                         /\ net[s].talk = "none"
  BY DEF Init
<1>5. TypeOK
  <2>1. /\ fd \in [Socket -> Fd \cup {None}]
        /\ stage \in [Socket -> {"unborn", "made", "open", "closed"}]
        /\ table \in [Fd -> Entry \cup {None}]
    BY DEF Init
  <2>2. net \in [Socket -> Link]
    <3>1. [came |-> 0, wire |-> 0, held |-> 0, room |-> Capacity,
           out |-> 0, over |-> "no", dial |-> "no", talk |-> "none"] \in Link
      BY NetworkAssumption DEF Link
    <3> QED BY <3>1 DEF Init
  <2>3. reqs \in Seq(Request) /\ Len(reqs) <= MaxRequests
    <3>1. \A D : <<>> \in Seq(D)
      OBVIOUS
    <3> QED BY <1>1, <3>1, NetworkAssumption
  <2>4. results \in Seq([req : DOMAIN reqs, ok : BOOLEAN])
    <3>1. \A D : <<>> \in Seq(D)
      OBVIOUS
    <3> QED BY <1>1, <3>1
  <2> QED BY <1>1, <2>1, <2>2, <2>3, <2>4 DEF TypeOK
<1>6. NetInv
  <2>1. SocketsSound
    BY <1>1, <1>2 DEF SocketsSound
  <2>2. MakingSound
    BY <1>1 DEF MakingSound
  <2>3. \A f \in Fd : EntrySound(f)
    BY <1>3 DEF EntrySound
  <2>4. StreamsSound
    BY <1>4 DEF StreamsSound
  <2> QED BY <1>1, <1>5, <2>1, <2>2, <2>3, <2>4 DEF NetInv
<1>7. Single /\ RequestsKept
  BY <1>1 DEF Single, RequestsKept
<1>8. OwnDescriptor
  BY <1>2, <1>3 DEF OwnDescriptor
<1>9. NothingLost /\ WrittenOnce
  <2>1. ASSUME NEW s, NEW op, NEW o PROVE SumMoved(s, op, o) = 0
    <3>1. \A w : Total(w, 0) = 0
      BY TotalZero
    <3> QED BY <1>1, <3>1 DEF SumMoved
  <2> QED BY <1>1, <1>4, <2>1 DEF NothingLost, WrittenOnce
<1> QED BY <1>6, <1>7, <1>8, <1>9

\* A step keeps the invariants, and so does one that changes nothing.
LEMMA NetStep ==
  ASSUME NetInv, [CollectNext]_vars
  PROVE  NetInv' /\ (KeptInv /\ OneAtATime => KeptInv') /\ (BytesInv => BytesInv')
<1>1. CASE CollectNext
  <2>1. PICK r \in Nat, C \in SUBSET Socket, g \in Fd \cup {None} : Good(r, C, g)
    BY <1>1, NextGood, CollectGood DEF CollectNext, GoodStep
  <2>2. Frame(r, C, g) /\ (KeptInv /\ OneAtATime => Keeps(r, C, g)) /\ (BytesInv => Bytes(r))
    BY <2>1 DEF Good
  <2> QED BY <2>2, FrameStep, KeptStep, BytesStep
<1>2. CASE UNCHANGED vars
  <2>1. NetInv'
    BY <1>2 DEF vars, NetInv, TypeOK, SocketsSound, MakingSound, EntrySound, StreamsSound, Pending, Handshake
  <2>2. KeptInv => KeptInv'
    BY <1>2, <2>1 DEF vars, KeptInv, Single, RequestsKept, OwnDescriptor, Pending
  <2>3. BytesInv => BytesInv'
    BY <1>2, <2>1 DEF vars, BytesInv, NothingLost, WrittenOnce, SumMoved, MovedBy
  <2> QED BY <2>1, <2>2, <2>3
<1> QED BY <1>1, <1>2

-----------------------------------------------------------------------------
(* The results. *)

\* The sockets, the requests and the reactor's table agree, whatever the program
\* calls and cancels and whatever becomes of the connections.
THEOREM NetworkInvariant == CollectSpec => []NetInv
<1>1. Init => NetInv
  BY InitFacts
<1>2. NetInv /\ [CollectNext]_vars => NetInv'
  BY NetStep
<1> QED BY <1>1, <1>2, PTL DEF CollectSpec

LEMMA KeptInvariant == ASSUME OneAtATime PROVE CollectSpec => []KeptInv
<1>1. Init => KeptInv
  BY InitFacts DEF KeptInv
<1>2. KeptInv /\ [CollectNext]_vars => KeptInv'
  BY NetStep DEF KeptInv
<1> QED BY <1>1, <1>2, PTL DEF CollectSpec

\* If a program waits for a request on a socket before it makes the next, then while
\* the future of one is pending the reactor has its entry, for the event that it
\* waits for, which for TLS may be the other one (tls.c:263-266, 295-298), or a
\* thread shakes hands for it.  It says nothing of the record that the entry points
\* to: nothing in the code keeps that (RequestsAlive).
THEOREM RequestsKeptTheorem == ASSUME OneAtATime PROVE CollectSpec => []RequestsKept
<1>1. KeptInv => RequestsKept
  BY DEF KeptInv
<1> QED BY <1>1, KeptInvariant, PTL

\* Descriptors are not shared, and the entry of one is for the socket that has it
\* now, although the numbers of closed ones are used again.
THEOREM OwnDescriptorTheorem == ASSUME OneAtATime PROVE CollectSpec => []OwnDescriptor
<1>1. KeptInv => OwnDescriptor
  BY DEF KeptInv
<1> QED BY <1>1, KeptInvariant, PTL

\* Every byte that comes is in the kernel, in OpenSSL or in the result of a read
\* that completed, and every byte of a write goes out once, whatever is cancelled
\* and however many requests wait on a socket.
THEOREM BytesOnceTheorem == CollectSpec => []BytesOnce
<1>1. Init => BytesInv
  BY InitFacts DEF BytesInv
<1>2. BytesInv /\ [CollectNext]_vars => BytesInv'
  BY NetStep DEF BytesInv
<1>3. BytesInv => BytesOnce
  BY DEF BytesInv, BytesOnce
<1> QED BY <1>1, <1>2, <1>3, PTL DEF CollectSpec

=============================================================================
