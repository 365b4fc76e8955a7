-------------------------- MODULE P2pServiceProofs --------------------------
(***************************************************************************)
(* Proofs about the P2P service, for any callers, peers, blobs and         *)
(* capacities, and a network that may do anything: what is stored and      *)
(* served has the hash it goes under, and no waiting call is forgotten.    *)
(***************************************************************************)
EXTENDS P2pService, TLAPS

Resps == Callers \X Nat
Calls == [n : Nat, phase : {"idle", "send", "wait", "have"},
          req : Requests \cup {Absent}, answer : Blobs \cup {Absent}]
Commands == [req : Requests, resp : Resps]

\* The state is typed: a call under way has its request, and answers are blobs.
CallTypes ==
    /\ call \in [Callers -> Calls]
    /\ \A c \in Callers : /\ call[c].n <= MaxCalls[c]
                          /\ call[c].phase # "idle" => call[c].req \in Requests
    /\ cmds \in Seq(Commands) /\ Len(cmds) <= CmdCap

LoopTypes ==
    /\ loop \in {"select"} \cup Topics
    /\ inbox \in [Topics -> 0..InCap]

\* The tables hold blobs under their hashes; the queries have numbers of their own.
DhtTypes ==
    /\ records \in [Hashes -> Blobs \cup {Absent}]
    /\ wasm \in [Hashes -> Blobs \cup {Absent}]
    /\ asked \in Nat
    /\ queries \subseteq [id : Nat, hash : Hashes]
    /\ pending \subseteq [id : Nat, hash : Hashes, resp : Resps]

P2pTypes == CallTypes /\ LoopTypes /\ DhtTypes

\* Two entries of pending_dht_gets never share a QueryId, and each one is the
\* number of a query under way.
QueriesDistinct ==
    /\ \A q \in queries : q.id < asked
    /\ \A p \in pending : \E q \in queries : q.id = p.id
    /\ \A p1, p2 \in pending : p1.id = p2.id => p1 = p2

\* A command carries the number of the call that sent it: not of a later one,
\* nor of one that still waits for room, and the request of a waiting one.
CommandsMatch ==
    \A i \in 1..Len(cmds), c \in Callers : cmds[i].resp[1] = c =>
        /\ cmds[i].resp[2] <= call[c].n
        /\ call[c].phase = "send" => cmds[i].resp # Resp(c)
        /\ call[c].phase = "wait" /\ cmds[i].resp = Resp(c) => cmds[i].req = call[c].req

Remembered ==
    \A c \in Callers : call[c].phase = "wait" =>
        /\ call[c].req.op # "broadcast"
        /\ \/ \E i \in 1..Len(cmds) : cmds[i].resp = Resp(c)
           \/ \E p \in pending : p.resp = Resp(c) /\ p.hash = call[c].req.hash

-----------------------------------------------------------------------------
\* The first command and the rest of the channel.
LEMMA HeadTail ==
    ASSUME NEW S, NEW s \in Seq(S), s # <<>>
    PROVE  /\ Len(s) \in Nat \ {0} /\ Head(s) = s[1] /\ Head(s) \in S
           /\ Tail(s) \in Seq(S) /\ Len(Tail(s)) = Len(s) - 1
           /\ \A i \in 1..(Len(s) - 1) : Tail(s)[i] = s[i + 1]
OBVIOUS

\* What the operation of a request tells about its other fields.
LEMMA RequestFields ==
    ASSUME NEW r \in Requests
    PROVE  /\ r.op \in {"get", "put", "peers", "broadcast"}
           /\ r.op = "get" => r.hash \in Hashes
           /\ r.op = "put" => r.hash \in Hashes /\ r.blob \in Blobs
BY DEF Requests

\* An answer changes the phase and the answer of the one call it is for.
LEMMA AnsweredType ==
    ASSUME CallTypes, NEW resp \in Resps, NEW b \in Blobs \cup {Absent}
    PROVE  /\ answered(resp, b) \in [Callers -> Calls]
           /\ \A c \in Callers :
                 /\ answered(resp, b)[c].n = call[c].n
                 /\ answered(resp, b)[c].req = call[c].req
                 /\ \/ answered(resp, b)[c] = call[c]
                    \/ call[c].phase = "wait" /\ answered(resp, b)[c].phase = "have"
                 /\ Resp(c) = resp => answered(resp, b)[c].phase # "wait"
<1>1. resp[1] \in Callers /\ call[resp[1]] \in Calls
  BY DEF CallTypes, Resps
<1>2. CASE call[resp[1]].phase = "wait" /\ Resp(resp[1]) = resp
  <2> DEFINE new == [call[resp[1]] EXCEPT !.phase = "have", !.answer = b]
  <2>1. answered(resp, b) = [call EXCEPT ![resp[1]] = new]
    BY <1>1, <1>2 DEF answered, CallTypes
  <2>2. new \in Calls /\ new.n = call[resp[1]].n /\ new.req = call[resp[1]].req /\ new.phase = "have"
    BY <1>1 DEF Calls
  <2> HIDE DEF new
  <2> QED  BY <1>1, <1>2, <2>1, <2>2 DEF CallTypes, Resp
<1>3. CASE ~(call[resp[1]].phase = "wait" /\ Resp(resp[1]) = resp)
  <2>1. answered(resp, b) = call
    BY <1>3 DEF answered
  <2> QED  BY <1>1, <1>3, <2>1 DEF CallTypes, Resp, Resps
<1> QED  BY <1>2, <1>3

-----------------------------------------------------------------------------
(* The types.                                                              *)

\* The state is typed in every behaviour: commands are the requests of callers,
\* and answers are blobs, whatever the network delivers.
LEMMA P2pTypesInvariant == Spec => []P2pTypes
<1>1. Init => P2pTypes
  <2> SUFFICES ASSUME Init PROVE P2pTypes
    OBVIOUS
  <2>1. call \in [Callers -> Calls] /\ \A c \in Callers : call[c].n = 0 /\ call[c].phase = "idle"
    BY DEF Init, Idle, Calls
  <2>2. cmds \in Seq(Commands) /\ Len(cmds) = 0
    BY DEF Init
  <2> QED  BY <2>1, <2>2, P2pAssumption DEF Init, P2pTypes, CallTypes, LoopTypes, DhtTypes
<1>2. P2pTypes /\ [Next]_vars => P2pTypes'
  <2> SUFFICES ASSUME P2pTypes, [Next]_vars PROVE P2pTypes'
    OBVIOUS
  <2> USE DEF P2pTypes
  <2>1. ASSUME NEW c \in Callers, NEW r \in Requests, request(c, r) PROVE P2pTypes'
    <3> DEFINE new == [n |-> call[c].n + 1, phase |-> "send", req |-> r, answer |-> Absent]
    <3>1. call' = [call EXCEPT ![c] = new] /\ call[c].n < MaxCalls[c]
      BY <2>1 DEF request, CallTypes
    <3>2. call[c].n \in Nat /\ new \in Calls /\ new.req = r /\ new.n = call[c].n + 1
      <4>1. call[c] \in Calls
        BY DEF CallTypes
      <4> QED  BY <4>1 DEF Calls
    <3>3. new.n <= MaxCalls[c]
      <4>1. MaxCalls[c] \in Nat
        BY P2pAssumption
      <4> QED  BY <3>1, <3>2, <4>1
    <3> HIDE DEF new
    <3>4. CallTypes'
      BY <2>1, <3>1, <3>2, <3>3 DEF request, CallTypes
    <3> QED  BY <2>1, <3>4 DEF request, LoopTypes, DhtTypes, dht, net
  <2>2. ASSUME NEW c \in Callers, send(c) PROVE P2pTypes'
    <3> DEFINE new == IF call[c].req.op = "broadcast" THEN Idle(call[c].n)
                      ELSE [call[c] EXCEPT !.phase = "wait"]
               cmd == [req |-> call[c].req, resp |-> Resp(c)]
    <3>1. call' = [call EXCEPT ![c] = new] /\ cmds' = Append(cmds, cmd)
      BY <2>2 DEF send, CallTypes
    <3>2. call[c] \in Calls /\ call[c].req \in Requests
      BY <2>2 DEF send, CallTypes
    <3>3. new \in Calls /\ new.n = call[c].n /\ (new.phase # "idle" => new.req \in Requests)
      BY <3>2 DEF Calls, Idle
    <3>4. cmd \in Commands
      BY <3>2 DEF Commands, Resp, Resps, Calls
    <3> HIDE DEF new, cmd
    <3>5. cmds' \in Seq(Commands) /\ Len(cmds') <= CmdCap
      BY <2>2, <3>1, <3>4, P2pAssumption DEF send, CallTypes
    <3>6. CallTypes'
      BY <3>1, <3>3, <3>5 DEF CallTypes
    <3> QED  BY <2>2, <3>6 DEF send, LoopTypes, DhtTypes, dht, net
  <2>3. ASSUME NEW c \in Callers, timeout(c) \/ use(c) PROVE P2pTypes'
    <3>1. call[c] \in Calls /\ call' = [call EXCEPT ![c] = Idle(call[c].n)] /\ cmds' = cmds
      BY <2>3 DEF timeout, use, CallTypes
    <3>2. Idle(call[c].n) \in Calls /\ Idle(call[c].n).n = call[c].n /\ Idle(call[c].n).phase = "idle"
      BY <3>1 DEF Calls, Idle
    <3>3. CallTypes'
      BY <3>1, <3>2 DEF CallTypes
    <3>4. wasm' \in [Hashes -> Blobs \cup {Absent}]
      <4>1. CASE timeout(c)
        BY <4>1 DEF timeout, DhtTypes
      <4>2. CASE use(c)
        <5>1. call[c].req \in Requests
          BY <4>2 DEF use, CallTypes
        <5> QED  BY <3>1, <4>2, <5>1, RequestFields DEF use, verified, DhtTypes, Calls
      <4> QED  BY <2>3, <4>1, <4>2
    <3> QED  BY <2>3, <3>3, <3>4 DEF timeout, use, LoopTypes, DhtTypes, dht, net
  <2>4. CASE command
    <3>1. PICK r, resp : r = Head(cmds).req /\ resp = Head(cmds).resp
      OBVIOUS
    <3>2. r \in Requests /\ resp \in Resps /\ cmds' \in Seq(Commands) /\ Len(cmds') <= CmdCap
      <4>1. cmds' = Tail(cmds) /\ cmds # <<>> /\ cmds \in Seq(Commands) /\ Len(cmds) <= CmdCap
        BY <2>4 DEF command, CallTypes
      <4>2. Head(cmds) \in Commands /\ Tail(cmds) \in Seq(Commands) /\ Len(Tail(cmds)) = Len(cmds) - 1
        BY <4>1, HeadTail
      <4> QED  BY <3>1, <4>1, <4>2, P2pAssumption DEF Commands
    <3>3. \/ r.op = "put" /\ PutContract(r, resp)
          \/ r.op = "get" /\ GetContract(r, resp)
          \/ r.op = "peers" /\ call' = answered(resp, Absent) /\ UNCHANGED dht
          \/ r.op = "broadcast" /\ UNCHANGED <<call, dht>>
      BY <2>4, <3>1 DEF command
    <3>4. /\ call' \in [Callers -> Calls]
          /\ \A c \in Callers : call'[c].n = call[c].n /\ call'[c].req = call[c].req
                               /\ (call'[c].phase # "idle" => call[c].phase # "idle")
      <4>1. \/ call' = call
            \/ \E b \in Blobs \cup {Absent} : call' = answered(resp, b)
        BY <3>2, <3>3, RequestFields DEF PutContract, GetContract, DhtTypes
      <4> QED  BY <3>2, <4>1, AnsweredType DEF CallTypes
    <3>5. CallTypes'
      BY <3>2, <3>4 DEF CallTypes
    <3>6. /\ records' \in [Hashes -> Blobs \cup {Absent}] /\ asked' \in Nat
          /\ queries' \subseteq [id : Nat, hash : Hashes]
          /\ pending' \subseteq [id : Nat, hash : Hashes, resp : Resps]
      BY <3>2, <3>3, RequestFields DEF PutContract, GetContract, put, dht, DhtTypes
    <3> QED  BY <2>4, <3>5, <3>6 DEF command, LoopTypes, DhtTypes
  <2>5. CASE deliver
    BY <2>5, P2pAssumption DEF deliver, CallTypes, LoopTypes, DhtTypes, dht, net
  <2>6. ASSUME NEW t \in Topics, listen(t) \/ gossip(t) PROVE P2pTypes'
    BY <2>6, P2pAssumption DEF listen, gossip, CallTypes, LoopTypes, DhtTypes, dht, net
  <2>7. ASSUME NEW h \in Hashes, NEW b \in Blobs, gossip_contract(h, b) PROVE P2pTypes'
    BY <2>7 DEF gossip_contract, ingest, put, CallTypes, LoopTypes, DhtTypes, net
  <2>8. ASSUME NEW q \in queries, NEW b \in Blobs \cup {Absent}, NEW last \in BOOLEAN,
               progress(q, b, last)
        PROVE  P2pTypes'
    <3>1. /\ call' \in [Callers -> Calls]
          /\ \A c \in Callers : call'[c].n = call[c].n /\ call'[c].req = call[c].req
                               /\ (call'[c].phase # "idle" => call[c].phase # "idle")
      <4>1. \/ call' = call
            \/ \E resp \in Resps : call' = answered(resp, b)
        BY <2>8 DEF progress, settle, DhtTypes
      <4> QED  BY <4>1, AnsweredType DEF CallTypes
    <3>2. CallTypes'
      BY <2>8, <3>1 DEF progress, CallTypes
    <3> QED  BY <2>8, <3>2 DEF progress, settle, LoopTypes, DhtTypes, net
  <2>9. ASSUME NEW p \in Peers, ConnectionEstablished(p) \/ ConnectionClosed(p) PROVE P2pTypes'
    BY <2>9 DEF ConnectionEstablished, ConnectionClosed, CallTypes, LoopTypes, DhtTypes, dht
  <2>10. CASE UNCHANGED vars
    BY <2>10 DEF vars, dht, net, CallTypes, LoopTypes, DhtTypes
  <2> QED  BY <2>1, <2>2, <2>3, <2>4, <2>5, <2>6, <2>7, <2>8, <2>9, <2>10 DEF Next, Network
<1> QED  BY <1>1, <1>2, PTL DEF Spec

-----------------------------------------------------------------------------
\* Nothing is stored, saved or served under a hash that is not its own: the
\* checks in PutContract, in the gossip ingest, in save_wasm and in
\* get_dht_contract are enough against any peers, for any blobs and callers.
THEOREM ContentCorrect == Spec => []ContentAddressed
<1>1. Init => ContentAddressed
  BY DEF Init, ContentAddressed
<1>2. P2pTypes /\ ContentAddressed /\ [Next]_vars => ContentAddressed'
  <2> SUFFICES ASSUME P2pTypes, ContentAddressed, [Next]_vars PROVE ContentAddressed'
    OBVIOUS
  \* Both writers of the Kademlia store compare the hash first.
  <2>1. ASSUME NEW h \in Hashes, NEW b \in Blobs, Sha[b] = h, put(h, b), UNCHANGED <<wasm, served>>
        PROVE  ContentAddressed'
    BY <2>1 DEF put, ContentAddressed, P2pTypes, DhtTypes
  <2>2. ASSUME UNCHANGED <<records, wasm, served>> PROVE ContentAddressed'
    BY <2>2 DEF ContentAddressed
  <2>3. ASSUME NEW c \in Callers, NEW r \in Requests, request(c, r) PROVE ContentAddressed'
    BY <2>2, <2>3 DEF request, dht
  <2>4. ASSUME NEW c \in Callers, send(c) \/ timeout(c) PROVE ContentAddressed'
    BY <2>2, <2>4 DEF send, timeout, dht
  <2>5. ASSUME NEW c \in Callers, use(c) PROVE ContentAddressed'
    <3>1. call[c] \in Calls /\ call[c].req \in Requests
      BY <2>5 DEF use, P2pTypes, CallTypes
    <3>2. records' = records
      BY <2>5 DEF use, dht
    <3>3. CASE call[c].req.op = "get" /\ verified(call[c].answer, call[c].req.hash)
      <4>1. /\ call[c].req.hash \in Hashes /\ call[c].answer \in Blobs
            /\ Sha[call[c].answer] = call[c].req.hash
        BY <3>1, <3>3, RequestFields DEF verified, Calls
      <4>2. wasm' = wasm \/ wasm' = [wasm EXCEPT ![call[c].req.hash] = call[c].answer]
        BY <2>5 DEF use
      <4>3. served' = served \/ served' = served \cup {<<call[c].req.hash, call[c].answer>>}
        BY <2>5 DEF use
      <4> QED  BY <3>2, <4>1, <4>2, <4>3 DEF ContentAddressed, P2pTypes, DhtTypes
    <3>4. CASE ~(call[c].req.op = "get" /\ verified(call[c].answer, call[c].req.hash))
      BY <2>2, <2>5, <3>2, <3>4 DEF use
    <3> QED  BY <3>3, <3>4
  <2>6. CASE command
    <3>1. PICK r, resp : r = Head(cmds).req /\ resp = Head(cmds).resp
      OBVIOUS
    <3>2. r \in Requests
      <4>1. Head(cmds) \in Commands
        BY <2>6, HeadTail DEF command, P2pTypes, CallTypes
      <4> QED  BY <3>1, <4>1 DEF Commands
    <3>3. CASE r.op = "put" /\ PutContract(r, resp)
      BY <2>1, <2>2, <2>6, <3>2, <3>3, RequestFields DEF command, PutContract
    <3>4. CASE ~(r.op = "put" /\ PutContract(r, resp))
      <4>1. records' = records
        BY <2>6, <3>1, <3>4 DEF command, GetContract, dht
      <4> QED  BY <2>2, <2>6, <4>1 DEF command
    <3> QED  BY <3>3, <3>4
  <2>7. CASE deliver
    BY <2>2, <2>7 DEF deliver, dht
  <2>8. ASSUME NEW t \in Topics, listen(t) \/ gossip(t) PROVE ContentAddressed'
    BY <2>2, <2>8 DEF listen, gossip, dht
  <2>9. ASSUME NEW h \in Hashes, NEW b \in Blobs, gossip_contract(h, b) PROVE ContentAddressed'
    BY <2>1, <2>2, <2>9 DEF gossip_contract, ingest
  <2>10. ASSUME NEW q \in queries, NEW b \in Blobs \cup {Absent}, NEW last \in BOOLEAN,
                progress(q, b, last)
         PROVE  ContentAddressed'
    BY <2>2, <2>10 DEF progress
  <2>11. ASSUME NEW p \in Peers, ConnectionEstablished(p) \/ ConnectionClosed(p)
         PROVE  ContentAddressed'
    BY <2>2, <2>11 DEF ConnectionEstablished, ConnectionClosed, dht
  <2>12. CASE UNCHANGED vars
    BY <2>2, <2>12 DEF vars, dht
  <2> QED  BY <2>3, <2>4, <2>5, <2>6, <2>7, <2>8, <2>9, <2>10, <2>11, <2>12 DEF Next, Network
<1> QED  BY <1>1, <1>2, P2pTypesInvariant, PTL DEF Spec

-----------------------------------------------------------------------------
(* The waiting calls.                                                      *)

\* The map of waiting senders follows the queries: a new query has a new number,
\* and the entry goes with the first progress of its query.
LEMMA QueriesInvariant == Spec => []QueriesDistinct
<1>1. Init => QueriesDistinct
  BY DEF Init, QueriesDistinct
<1>2. P2pTypes /\ QueriesDistinct /\ [Next]_vars => QueriesDistinct'
  <2> SUFFICES ASSUME P2pTypes, QueriesDistinct, [Next]_vars PROVE QueriesDistinct'
    OBVIOUS
  <2>1. ASSUME UNCHANGED <<pending, queries, asked>> PROVE QueriesDistinct'
    BY <2>1 DEF QueriesDistinct
  <2>2. CASE command
    <3>1. PICK r, resp : r = Head(cmds).req /\ resp = Head(cmds).resp
      OBVIOUS
    <3>2. CASE /\ asked' = asked + 1
               /\ queries' = queries \cup {[id |-> asked, hash |-> r.hash]}
               /\ pending' = pending \cup {[id |-> asked, hash |-> r.hash, resp |-> resp]}
      <4>1. \A p \in pending : p.id # asked /\ p.id < asked
        BY DEF QueriesDistinct, P2pTypes, DhtTypes
      <4>2. \A q \in queries' : q.id < asked'
        BY <3>2 DEF QueriesDistinct, P2pTypes, DhtTypes
      <4>3. \A p \in pending' : \E q \in queries' : q.id = p.id
        <5> SUFFICES ASSUME NEW p \in pending' PROVE \E q \in queries' : q.id = p.id
          OBVIOUS
        <5>1. CASE p \in pending
          BY <3>2, <5>1 DEF QueriesDistinct
        <5>2. CASE p = [id |-> asked, hash |-> r.hash, resp |-> resp]
          <6>1. [id |-> asked, hash |-> r.hash].id = p.id
            BY <5>2
          <6> QED  BY <3>2, <6>1
        <5> QED  BY <3>2, <5>1, <5>2
      <4>4. \A p1, p2 \in pending' : p1.id = p2.id => p1 = p2
        BY <3>2, <4>1 DEF QueriesDistinct
      <4> QED  BY <4>2, <4>3, <4>4 DEF QueriesDistinct
    <3>3. CASE UNCHANGED <<pending, queries, asked>>
      BY <2>1, <3>3
    <3> QED  BY <2>2, <3>1, <3>2, <3>3 DEF command, PutContract, GetContract, dht
  <2>3. ASSUME NEW q \in queries, NEW b \in Blobs \cup {Absent}, NEW last \in BOOLEAN,
               progress(q, b, last)
        PROVE  QueriesDistinct'
    BY <2>3 DEF progress, settle, QueriesDistinct
  <2>4. CASE UNCHANGED vars
    BY <2>1, <2>4 DEF vars, dht
  <2> QED
    BY <2>1, <2>2, <2>3, <2>4
       DEF Next, Network, request, send, timeout, use, deliver, listen, gossip, gossip_contract,
           ConnectionEstablished, ConnectionClosed, dht
<1> QED  BY <1>1, <1>2, P2pTypesInvariant, PTL DEF Spec

\* An answer for the call of a command or of a query leaves every other waiting
\* call as it is.
LEMMA WaitingUnanswered ==
    ASSUME CallTypes, NEW resp \in Resps, NEW b \in Blobs \cup {Absent}, NEW c \in Callers,
           call' = answered(resp, b), call'[c].phase \in {"send", "wait"}
    PROVE  call'[c] = call[c] /\ (call[c].phase = "wait" => resp # Resp(c))
BY AnsweredType

LEMMA RememberedInvariant == Spec => [](CommandsMatch /\ Remembered)
<1> DEFINE Inv == CommandsMatch /\ Remembered
<1>1. Init => Inv
  BY DEF Init, CommandsMatch, Remembered, Idle
<1>2. P2pTypes /\ QueriesDistinct /\ Inv /\ [Next]_vars => Inv'
  <2> SUFFICES ASSUME P2pTypes, QueriesDistinct, Inv, [Next]_vars PROVE Inv'
    OBVIOUS
  <2> USE DEF P2pTypes
  <2>1. ASSUME UNCHANGED <<call, cmds, pending>> PROVE Inv'
    BY <2>1 DEF CommandsMatch, Remembered, Resp
  <2>2. ASSUME NEW c \in Callers, NEW r \in Requests, request(c, r) PROVE Inv'
    <3>1. /\ cmds' = cmds /\ pending' = pending
          /\ \A d \in Callers \ {c} : call'[d] = call[d]
          /\ call[c].n \in Nat /\ call'[c].n = call[c].n + 1 /\ call'[c].phase = "send"
      BY <2>2 DEF request, CallTypes, Calls, dht
    <3>2. \A i \in 1..Len(cmds) : cmds[i] \in Commands
      BY DEF CallTypes
    <3>3. CommandsMatch'
      <4> SUFFICES ASSUME NEW i \in 1..Len(cmds), NEW d \in Callers, cmds[i].resp[1] = d
                   PROVE  /\ cmds[i].resp[2] <= call'[d].n
                          /\ call'[d].phase = "send" => cmds[i].resp # Resp(d)'
                          /\ call'[d].phase = "wait" /\ cmds[i].resp = Resp(d)'
                                => cmds[i].req = call'[d].req
        BY <3>1 DEF CommandsMatch
      <4>1. cmds[i].resp[2] \in Nat /\ cmds[i].resp[2] <= call[d].n
        BY <3>2 DEF CommandsMatch, Commands, Resps
      <4>2. CASE d = c
        BY <3>1, <4>1, <4>2 DEF Resp
      <4>3. CASE d # c
        BY <3>1, <4>3 DEF CommandsMatch, Resp
      <4> QED  BY <4>2, <4>3
    <3>4. Remembered'
      BY <3>1, ZenonT(60) DEF Remembered, Resp
    <3> QED  BY <3>3, <3>4
  <2>3. ASSUME NEW c \in Callers, send(c) PROVE Inv'
    <3> DEFINE cmd == [req |-> call[c].req, resp |-> Resp(c)]
    <3>1. /\ cmds' = Append(cmds, cmd) /\ pending' = pending
          /\ \A d \in Callers \ {c} : call'[d] = call[d]
          /\ call[c].phase = "send"
      BY <2>3 DEF send, CallTypes, dht
    <3>2. /\ call'[c].n = call[c].n
          /\ \/ call'[c].phase = "idle"
             \/ /\ call'[c].phase = "wait" /\ call'[c].req = call[c].req
                /\ call[c].req.op # "broadcast"
      BY <2>3 DEF send, CallTypes, Calls, Idle
    <3>3. cmd.req = call[c].req /\ cmd.resp = Resp(c)
      OBVIOUS
    <3> HIDE DEF cmd
    <3>4. /\ Len(cmds') = Len(cmds) + 1 /\ Len(cmds) \in Nat
          /\ cmds'[Len(cmds) + 1] = cmd
          /\ \A i \in 1..Len(cmds) : cmds'[i] = cmds[i] /\ cmds[i] \in Commands
      BY <3>1 DEF CallTypes
    <3>5. \A d \in Callers : Resp(d)' = Resp(d)
      BY <3>1, <3>2 DEF Resp
    <3>6. CommandsMatch'
      <4> SUFFICES ASSUME NEW i \in 1..Len(cmds'), NEW d \in Callers, cmds'[i].resp[1] = d
                   PROVE  /\ cmds'[i].resp[2] <= call'[d].n
                          /\ call'[d].phase = "send" => cmds'[i].resp # Resp(d)'
                          /\ call'[d].phase = "wait" /\ cmds'[i].resp = Resp(d)'
                                => cmds'[i].req = call'[d].req
        BY DEF CommandsMatch
      <4>1. CASE i = Len(cmds) + 1
        <5>1. cmds'[i].resp[1] = c /\ cmds'[i].resp[2] = call[c].n /\ call[c].n \in Nat
          BY <3>3, <3>4, <4>1 DEF Resp, CallTypes, Calls
        <5> QED  BY <3>2, <3>3, <3>4, <4>1, <5>1
      <4>2. CASE i \in 1..Len(cmds)
        <5>1. cmds'[i] = cmds[i] /\ cmds[i].resp[1] = d
          BY <3>4, <4>2
        <5>2. CASE d = c
          BY <3>1, <3>2, <3>5, <4>2, <5>1, <5>2 DEF CommandsMatch
        <5>3. CASE d # c
          BY <3>1, <3>5, <4>2, <5>1, <5>3 DEF CommandsMatch
        <5> QED  BY <5>2, <5>3
      <4> QED  BY <3>4, <4>1, <4>2
    <3>7. Remembered'
      <4> SUFFICES ASSUME NEW d \in Callers, call'[d].phase = "wait"
                   PROVE  /\ call'[d].req.op # "broadcast"
                          /\ \/ \E i \in 1..Len(cmds') : cmds'[i].resp = Resp(d)'
                             \/ \E p \in pending' : p.resp = Resp(d)' /\ p.hash = call'[d].req.hash
        BY DEF Remembered
      <4>1. CASE d = c
        BY <3>2, <3>3, <3>4, <3>5, <4>1
      <4>2. CASE d # c
        BY <3>1, <3>4, <3>5, <4>2 DEF Remembered
      <4> QED  BY <4>1, <4>2
    <3> QED  BY <3>6, <3>7
  <2>4. ASSUME NEW c \in Callers, timeout(c) \/ use(c) PROVE Inv'
    <3>1. /\ cmds' = cmds /\ pending' = pending
          /\ \A d \in Callers \ {c} : call'[d] = call[d]
          /\ call'[c].n = call[c].n /\ call'[c].phase = "idle"
      BY <2>4 DEF timeout, use, CallTypes, Idle, dht
    <3>2. \A i \in 1..Len(cmds) : cmds[i] \in Commands
      BY DEF CallTypes
    <3>3. CommandsMatch'
      BY <3>1, <3>2 DEF CommandsMatch, Resp, Commands, Resps
    <3>4. Remembered'
      BY <3>1, ZenonT(60) DEF Remembered, Resp
    <3> QED  BY <3>3, <3>4
  <2>5. CASE command
    <3>1. /\ cmds \in Seq(Commands) /\ Len(cmds) \in Nat \ {0} /\ cmds[1] \in Commands
          /\ Len(cmds') = Len(cmds) - 1
          /\ \A i \in 1..Len(cmds') : cmds'[i] = cmds[i + 1] /\ cmds[i + 1] \in Commands
          /\ \A i \in 1..Len(cmds) : i # 1 => i - 1 \in 1..Len(cmds') /\ cmds'[i - 1] = cmds[i]
      BY <2>5, HeadTail DEF command, CallTypes
    <3>2. PICK r, resp : r = cmds[1].req /\ resp = cmds[1].resp
      OBVIOUS
    <3>3. /\ r \in Requests /\ resp \in Resps
          /\ \/ r.op = "put" /\ PutContract(r, resp)
             \/ r.op = "get" /\ GetContract(r, resp)
             \/ r.op = "peers" /\ call' = answered(resp, Absent) /\ UNCHANGED dht
             \/ r.op = "broadcast" /\ UNCHANGED <<call, dht>>
      BY <2>5, <3>1, <3>2, HeadTail DEF command, Commands
    \* What the command leaves of the calls, and of the waiting senders.
    <3>4. \/ call' = call
          \/ \E b \in Blobs \cup {Absent} : call' = answered(resp, b)
      BY <3>3, RequestFields DEF PutContract, GetContract, DhtTypes
    <3>5. \A c \in Callers : call'[c].n = call[c].n /\ Resp(c)' = Resp(c)
      BY <3>3, <3>4, AnsweredType DEF Resp
    <3>6. \A c \in Callers : call'[c].phase \in {"send", "wait"} => call'[c] = call[c]
      BY <3>3, <3>4, WaitingUnanswered
    <3>7. pending \subseteq pending'
      BY <3>3 DEF PutContract, GetContract, dht
    <3>8. ASSUME NEW c \in Callers, call'[c].phase = "wait", resp = Resp(c)
          PROVE  \E p \in pending' : p.resp = Resp(c) /\ p.hash = call[c].req.hash
      <4>1. call[c].phase = "wait" /\ r = call[c].req /\ r.op # "broadcast"
        <5>1. call[c].phase = "wait" /\ 1 \in 1..Len(cmds) /\ cmds[1].resp[1] = c
          BY <3>1, <3>2, <3>6, <3>8 DEF Resp
        <5> QED  BY <3>2, <3>8, <5>1 DEF CommandsMatch, Remembered
      <4>2. \A b \in Blobs \cup {Absent} : call' # answered(resp, b)
        BY <3>3, <3>8, AnsweredType
      <4>3. /\ r.op = "get"
            /\ pending' = pending \cup {[id |-> asked, hash |-> r.hash, resp |-> resp]}
        BY <3>3, <4>1, <4>2, RequestFields DEF PutContract, GetContract, DhtTypes
      <4> DEFINE entry == [id |-> asked, hash |-> r.hash, resp |-> resp]
      <4>4. entry \in pending' /\ entry.resp = resp /\ entry.hash = r.hash
        BY <4>3
      <4> HIDE DEF entry
      <4> QED  BY <3>8, <4>1, <4>4
    <3>9. CommandsMatch'
      <4> SUFFICES ASSUME NEW i \in 1..Len(cmds'), NEW d \in Callers, cmds'[i].resp[1] = d
                   PROVE  /\ cmds'[i].resp[2] <= call'[d].n
                          /\ call'[d].phase = "send" => cmds'[i].resp # Resp(d)'
                          /\ call'[d].phase = "wait" /\ cmds'[i].resp = Resp(d)'
                                => cmds'[i].req = call'[d].req
        BY DEF CommandsMatch
      <4>1. /\ i + 1 \in 1..Len(cmds) /\ cmds'[i] = cmds[i + 1]
            /\ cmds[i + 1].resp[1] = d
        BY <3>1
      <4> QED  BY <3>5, <3>6, <4>1 DEF CommandsMatch
    <3>10. Remembered'
      <4> SUFFICES ASSUME NEW c \in Callers, call'[c].phase = "wait"
                   PROVE  /\ call'[c].req.op # "broadcast"
                          /\ \/ \E i \in 1..Len(cmds') : cmds'[i].resp = Resp(c)'
                             \/ \E p \in pending' : p.resp = Resp(c)' /\ p.hash = call'[c].req.hash
        BY DEF Remembered
      <4>1. call'[c] = call[c] /\ call[c].phase = "wait" /\ Resp(c)' = Resp(c)
        BY <3>5, <3>6
      <4>2. CASE resp = Resp(c)
        BY <3>8, <4>1, <4>2 DEF Remembered
      <4>3. CASE resp # Resp(c)
        <5>1. /\ call[c].req.op # "broadcast"
              /\ \/ \E i \in 1..Len(cmds) : cmds[i].resp = Resp(c)
                 \/ \E p \in pending : p.resp = Resp(c) /\ p.hash = call[c].req.hash
          BY <4>1 DEF Remembered
        <5>2. ASSUME NEW i \in 1..Len(cmds), cmds[i].resp = Resp(c)
              PROVE  \E j \in 1..Len(cmds') : cmds'[j].resp = Resp(c)
          <6>1. i # 1
            BY <3>2, <4>3, <5>2
          <6>2. i - 1 \in 1..Len(cmds') /\ cmds'[i - 1].resp = Resp(c)
            BY <3>1, <5>2, <6>1
          <6> QED  BY <6>2
        <5> QED  BY <3>7, <4>1, <5>1, <5>2
      <4> QED  BY <4>2, <4>3
    <3> QED  BY <3>9, <3>10
  <2>6. ASSUME NEW q \in queries, NEW b \in Blobs \cup {Absent}, NEW last \in BOOLEAN,
               progress(q, b, last)
        PROVE  Inv'
    <3>1. /\ cmds' = cmds /\ pending' = {p \in pending : p.id # q.id}
          /\ \A i \in 1..Len(cmds) : cmds[i] \in Commands
      BY <2>6 DEF progress, settle, CallTypes
    <3>2. CASE \E p \in pending : p.id = q.id
      <4>1. PICK p0 \in pending : p0.id = q.id
        BY <3>2
      <4>2. p0 = CHOOSE p \in pending : p.id = q.id
        BY <4>1 DEF QueriesDistinct
      <4>3. p0.resp \in Resps /\ call' = answered(p0.resp, b)
        BY <2>6, <3>2, <4>1, <4>2 DEF progress, settle, DhtTypes
      <4>4. \A p \in pending : p # p0 => p \in pending'
        BY <3>1, <4>1 DEF QueriesDistinct
      <4>5. \A c \in Callers : call'[c].n = call[c].n /\ Resp(c)' = Resp(c)
        BY <4>3, AnsweredType DEF Resp
      <4>6. \A c \in Callers : call'[c].phase \in {"send", "wait"} =>
                 call'[c] = call[c] /\ (call[c].phase = "wait" => p0.resp # Resp(c))
        BY <4>3, WaitingUnanswered
      <4>7. CommandsMatch'
        BY <3>1, <4>5, <4>6 DEF CommandsMatch, Commands, Resps
      <4>8. Remembered'
        BY <3>1, <4>4, <4>5, <4>6 DEF Remembered
      <4> QED  BY <4>7, <4>8
    <3>3. CASE ~ \E p \in pending : p.id = q.id
      <4>1. pending' = pending /\ call' = call
        BY <2>6, <3>1, <3>3 DEF progress, settle
      <4> QED  BY <2>1, <3>1, <4>1
    <3> QED  BY <3>2, <3>3
  <2>7. CASE UNCHANGED vars
    BY <2>1, <2>7 DEF vars, dht
  <2> QED
    BY <2>1, <2>2, <2>3, <2>4, <2>5, <2>6, <2>7
       DEF Next, Network, deliver, listen, gossip, gossip_contract,
           ConnectionEstablished, ConnectionClosed, dht
<1> QED  BY <1>1, <1>2, P2pTypesInvariant, QueriesInvariant, PTL DEF Spec

\* A waiting get is in the channel or has its sender in the map, under a query
\* that is still under way: no other call, timeout or late answer makes the loop
\* forget it, with any number of callers, queries and capacities.
THEOREM WaitersCorrect == Spec => []WaitersKnown
<1>1. P2pTypes /\ QueriesDistinct /\ CommandsMatch /\ Remembered => WaitersKnown
  <2> SUFFICES ASSUME P2pTypes, QueriesDistinct, Remembered PROVE WaitersKnown
    OBVIOUS
  <2>1. \A c \in Callers : call[c] \in Calls /\ MaxCalls[c] \in Nat /\ call[c].n <= MaxCalls[c]
    BY P2pAssumption DEF P2pTypes, CallTypes
  <2>2. P2pTypeOK
    BY <2>1 DEF P2pTypes, CallTypes, LoopTypes, QueriesDistinct, P2pTypeOK, Calls
  <2> QED  BY <2>2 DEF WaitersKnown, Remembered
<1> QED  BY <1>1, P2pTypesInvariant, QueriesInvariant, RememberedInvariant, PTL
=============================================================================
