----------------------------- MODULE P2pService -----------------------------
(***************************************************************************)
(* The P2P service, packages/node/src/p2p/node.rs: one task runs the       *)
(* swarm and takes either a command of a P2pHandle or a network event.     *)
(* The sync loop and the RPC handlers call through the handle, wait for    *)
(* the answer at most two seconds and check the bytes they get.            *)
(*                                                                         *)
(* A blob is a model value and `Sha' its hash, the key it is stored under. *)
(* libp2p is external: connections, gossip and the progress of DHT queries *)
(* happen at any time, or never.                                           *)
(***************************************************************************)
EXTENDS Naturals, Sequences, FiniteSets

CONSTANTS
    Callers,    \* the tasks that hold a P2pHandle
    Syncer,     \* the one of them that is the sync loop
    Peers,      \* remote peers
    Blobs,      \* WASM blobs
    Sha,        \* Sha256::digest
    Hashes,     \* the hashes contracts are asked for and announced under
    Absent,     \* no blob
    Topics,     \* gossip topics handed to a listener: "attestation", "mempool"
    CmdCap,     \* capacity of the command channel (100)
    InCap,      \* capacity of the attestation and mempool channels (channel_size)
    MaxCalls,   \* bound: calls of each caller
    MaxConns    \* bound: connections with one peer


ASSUME P2pAssumption ==
    /\ Syncer \in Callers
    /\ Absent \notin Blobs
    /\ Topics \subseteq {"attestation", "mempool"}
    /\ {CmdCap, InCap, MaxConns} \subseteq Nat \ {0}
    /\ MaxCalls \in [Callers -> Nat]

VARIABLES
    call,       \* per caller: number, phase, request and answer of its call
    cmds,       \* the command channel
    loop,       \* "select", or the channel the loop waits to send to
    inbox,      \* length of the attestation and of the mempool channel
    records,    \* the local Kademlia store
    pending,    \* pending_dht_gets: the queries, numbered, with their sender
    queries,    \* external: the DHT queries under way
    asked,      \* queries so far: the next QueryId
    wasm,       \* WASM_TABLE of the state store
    peers,      \* connected_peers
    conns,      \* external: the open connections
    served      \* history: <<hash, blob>> the RPC has answered with

net == <<peers, conns>>
dht == <<records, pending, queries, asked>>
vars == <<call, cmds, loop, inbox, dht, wasm, net, served>>

\* The two ends of a oneshot channel are the caller and the number of its call.
Resp(c) == <<c, call[c].n>>
Requests ==
    [op : {"get"}, hash : Hashes] \cup [op : {"peers", "broadcast"}]
       \cup [op : {"put"}, hash : Hashes, blob : Blobs]
Idle(n) == [n |-> n, phase |-> "idle", req |-> Absent, answer |-> Absent]

-----------------------------------------------------------------------------
Init ==
    /\ call = [c \in Callers |-> Idle(0)]
    /\ cmds = <<>> /\ loop = "select" /\ inbox = [t \in Topics |-> 0]
    /\ records = [h \in Hashes |-> Absent] /\ wasm = [h \in Hashes |-> Absent]
    /\ pending = {} /\ queries = {} /\ asked = 0
    /\ peers = <<>> /\ conns = [p \in Peers |-> 0]
    /\ served = {}

(* The handle.                                                             *)

\* A call begins.  put_dht_contract compares the hash before it calls.
request(c, r) ==
    /\ call[c].phase = "idle" /\ call[c].n < MaxCalls[c]
    /\ c = Syncer => r.op \in {"get", "broadcast"}
    /\ r.op = "put" => Sha[r.blob] = r.hash
    /\ call' = [call EXCEPT ![c] = [n |-> @.n + 1, phase |-> "send", req |-> r,
                                    answer |-> Absent]]
    /\ UNCHANGED <<cmds, loop, inbox, dht, wasm, net, served>>

\* sender.send(...).await waits for room; a broadcast waits for nothing else.
send(c) ==
    /\ call[c].phase = "send" /\ Len(cmds) < CmdCap
    /\ cmds' = Append(cmds, [req |-> call[c].req, resp |-> Resp(c)])
    /\ call' = [call EXCEPT ![c] = IF @.req.op = "broadcast" THEN Idle(@.n)
                                   ELSE [@ EXCEPT !.phase = "wait"]]
    /\ UNCHANGED <<loop, inbox, dht, wasm, net, served>>

\* tokio::time::timeout: the caller drops its end and goes on with None, or
\* with an error if it was a put.
\* Mutant: no timeout around the receiver.
timeout_never(c) == FALSE /\ UNCHANGED vars

timeout(c) ==
    /\ call[c].phase = "wait"
    /\ call' = [call EXCEPT ![c] = Idle(@.n)]
    /\ UNCHANGED <<cmds, loop, inbox, dht, wasm, net, served>>

\* resp.send(b): only a caller that still waits for this very call gets it.
answered(resp, b) ==
    IF call[resp[1]].phase = "wait" /\ Resp(resp[1]) = resp
    THEN [call EXCEPT ![resp[1]].phase = "have", ![resp[1]].answer = b]
    ELSE call

\* The hash check of save_wasm and of get_dht_contract.
\* Mutant: the answer is taken as it comes.
verified_any(b, h) == b # Absent

verified(b, h) == b # Absent /\ Sha[b] = h

\* The caller uses what it got: the sync loop saves the blob, the RPC answers.
use(c) ==
    /\ call[c].phase = "have"
    /\ LET r == call[c].req
           b == call[c].answer
           good == r.op = "get" /\ verified(b, r.hash)
       IN /\ wasm' = IF good /\ c = Syncer THEN [wasm EXCEPT ![r.hash] = b] ELSE wasm
          /\ served' = IF good /\ c # Syncer THEN served \cup {<<r.hash, b>>} ELSE served
    /\ call' = [call EXCEPT ![c] = Idle(@.n)]
    /\ UNCHANGED <<cmds, loop, inbox, dht, net>>

-----------------------------------------------------------------------------
(* The loop: commands.                                                     *)

\* kademlia.store_mut().put(record): it may refuse a record too many or too
\* large, and both places that call it go on.
put(h, b) == records' = [records EXCEPT ![h] = b] \/ records' = records

\* PutContract: the hash, the local store, the gossip, and Ok whatever came of them.
PutContract(r, resp) ==
    /\ IF Sha[r.blob] = r.hash THEN put(r.hash, r.blob) ELSE records' = records
    /\ call' = answered(resp, Absent)
    /\ UNCHANGED <<pending, queries, asked>>

\* GetContract: the local store, or a query whose sender waits in the map.
\* Mutant: one query per hash: the sender of an earlier one is overwritten.
GetContract_by_hash(r, resp) ==
    \/ /\ records[r.hash] # Absent
       /\ call' = answered(resp, records[r.hash])
       /\ UNCHANGED dht
    \/ /\ records[r.hash] = Absent
       /\ asked' = asked + 1
       /\ queries' = queries \cup {[id |-> asked, hash |-> r.hash]}
       /\ pending' = {p \in pending : p.hash # r.hash}
                     \cup {[id |-> asked, hash |-> r.hash, resp |-> resp]}
       /\ UNCHANGED <<records, call>>

GetContract(r, resp) ==
    \/ /\ records[r.hash] # Absent
       /\ call' = answered(resp, records[r.hash])
       /\ UNCHANGED dht
    \/ /\ records[r.hash] = Absent
       /\ asked' = asked + 1
       /\ queries' = queries \cup {[id |-> asked, hash |-> r.hash]}
       /\ pending' = pending \cup {[id |-> asked, hash |-> r.hash, resp |-> resp]}
       /\ UNCHANGED <<records, call>>

\* cmd_rx.recv(): the first command, carried out in one go.
command ==
    /\ loop = "select" /\ cmds # <<>>
    /\ LET r == Head(cmds).req
           resp == Head(cmds).resp
       IN \/ r.op = "put" /\ PutContract(r, resp)
          \/ r.op = "get" /\ GetContract(r, resp)
          \/ r.op = "peers" /\ call' = answered(resp, Absent) /\ UNCHANGED dht
          \/ r.op = "broadcast" /\ UNCHANGED <<call, dht>>
    /\ cmds' = Tail(cmds)
    /\ UNCHANGED <<loop, inbox, wasm, net, served>>

-----------------------------------------------------------------------------
(* The loop: network events.                                               *)

\* A gossiped attestation or transaction: the loop awaits the channel to its
\* listener, and takes no command until there is room.
gossip(t) ==
    /\ loop = "select"
    /\ loop' = t
    /\ UNCHANGED <<call, cmds, inbox, dht, wasm, net, served>>

deliver ==
    /\ loop \in Topics /\ inbox[loop] < InCap
    /\ inbox' = [inbox EXCEPT ![loop] = @ + 1]
    /\ loop' = "select"
    /\ UNCHANGED <<call, cmds, dht, wasm, net, served>>

\* The attestation listener and the mempool listener: they take the next item
\* and call no P2pHandle.
listen(t) ==
    /\ inbox[t] > 0
    /\ inbox' = [inbox EXCEPT ![t] = @ - 1]
    /\ UNCHANGED <<call, cmds, loop, dht, wasm, net, served>>

\* A gossiped contract: stored under the hash it claims if that is its hash.
ingest(h, b) == IF Sha[b] = h THEN put(h, b) ELSE records' = records

gossip_contract(h, b) ==
    /\ loop = "select"
    /\ ingest(h, b)
    /\ UNCHANGED <<call, cmds, loop, inbox, pending, queries, asked, wasm, net, served>>

\* OutboundQueryProgressed: the first progress of a query, found or not, takes
\* its sender.  The remote record is whatever the remote peers hold.
settle(q, b) ==
    /\ pending' = {p \in pending : p.id # q.id}
    /\ call' = IF \E p \in pending : p.id = q.id
               THEN answered((CHOOSE p \in pending : p.id = q.id).resp, b) ELSE call

\* A query reports several times: records, then the end.
progress(q, b, last) ==
    /\ loop = "select"
    /\ settle(q, b)
    /\ queries' = IF last THEN queries \ {q} ELSE queries
    /\ last => b = Absent
    /\ UNCHANGED <<cmds, loop, inbox, records, asked, wasm, net, served>>

ConnectionEstablished(p) ==
    /\ loop = "select" /\ conns[p] < MaxConns
    /\ conns' = [conns EXCEPT ![p] = @ + 1]
    /\ peers' = Append(peers, p)
    /\ UNCHANGED <<call, cmds, loop, inbox, dht, wasm, served>>

\* retain(|p| *p != peer_id).
retain(p) == SelectSeq(peers, LAMBDA x : x # p)

ConnectionClosed(p) ==
    /\ loop = "select" /\ conns[p] > 0
    /\ conns' = [conns EXCEPT ![p] = @ - 1]
    /\ peers' = retain(p)
    /\ UNCHANGED <<call, cmds, loop, inbox, dht, wasm, served>>

-----------------------------------------------------------------------------
Network ==
    \/ \E t \in Topics : gossip(t)
    \/ \E h \in Hashes, b \in Blobs : gossip_contract(h, b)
    \/ \E q \in queries, b \in Blobs \cup {Absent}, last \in BOOLEAN : progress(q, b, last)
    \/ \E p \in Peers : ConnectionEstablished(p) \/ ConnectionClosed(p)

Next ==
    \/ \E c \in Callers : send(c) \/ timeout(c) \/ use(c)
                          \/ \E r \in Requests : request(c, r)
    \/ command \/ deliver
    \/ \E t \in Topics : listen(t)
    \/ Network

Spec == Init /\ [][Next]_vars

\* Nothing is assumed of the network.  A task that can go on does; select! draws
\* one of the ready branches at random, so commands are not passed over for
\* ever; waiters of the command channel are served in turn.
FairSpec ==
    /\ Spec
    /\ \A c \in Callers : SF_vars(send(c)) /\ WF_vars(timeout(c)) /\ WF_vars(use(c))
    /\ SF_vars(command) /\ WF_vars(deliver)
    /\ \A t \in Topics : WF_vars(listen(t))

-----------------------------------------------------------------------------
(* Properties.                                                             *)

\* Types; a sender waits in the map only for a query that is still under way,
\* so the map does not grow with queries that failed (OutboundQueryProgressed).
P2pTypeOK ==
    /\ \A c \in Callers : /\ call[c].n \in 0..MaxCalls[c]
                          /\ call[c].phase \in {"idle", "send", "wait", "have"}
                          /\ call[c].answer \in Blobs \cup {Absent}
    /\ Len(cmds) <= CmdCap /\ loop \in {"select"} \cup Topics
    /\ inbox \in [Topics -> 0..InCap]
    /\ {p.id : p \in pending} \subseteq {q.id : q \in queries}

\* Every blob this node stores, saves or serves has the hash it goes under,
\* whatever peers gossip and the DHT returns: PutContract, the gossip ingest,
\* save_wasm and get_dht_contract each check it.
ContentAddressed ==
    /\ \A h \in Hashes : {records[h], wasm[h]} \subseteq {b \in Blobs : Sha[b] = h} \cup {Absent}
    /\ \A s \in served : Sha[s[2]] = s[1]

\* In a well-typed state a waiting get is never forgotten: its command is in the channel, or its sender
\* is in the map under a query for its hash.  It ends by an answer or by its
\* timeout, and never because another call for the same hash took its place.
WaitersKnown ==
    P2pTypeOK /\ \A c \in Callers : call[c].phase = "wait" =>
        \/ \E i \in 1..Len(cmds) : cmds[i].resp = Resp(c)
        \/ \E p \in pending : p.resp = Resp(c) /\ p.hash = call[c].req.hash

\* Every call through the handle returns, with a network that never answers,
\* full channels and callers that time out.
HandleReturns == \A c \in Callers : call[c].phase # "idle" ~> call[c].phase = "idle"

\* rpc/server.rs: "Connected P2P peers".  The list leaves a peer out as soon as
\* one of its connections closes.
PeersConnected == \A p \in Peers : conns[p] > 0 => \E i \in 1..Len(peers) : peers[i] = p
=============================================================================
