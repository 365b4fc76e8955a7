------------------------------- MODULE Runtime -------------------------------
(***************************************************************************)
(* The contract runtime, packages/core-vm/src/runtime.rs: deploy and       *)
(* execute call the exported functions of a WASM module one after the      *)
(* other, under one allowance of fuel, and execute_wasm of the node's      *)
(* processor applies what comes back to the object.                        *)
(*                                                                         *)
(* An execution is the sequence `todo' of guest functions still to be      *)
(* called.  The guest is arbitrary: in any of them it burns fuel, changes  *)
(* its state, calls the host, answers what it likes, or traps.  A state    *)
(* stands for the bytes of state_data; `Size' is their number.  Guest      *)
(* pointers are left out: an allocation gives a usable buffer, or the      *)
(* write to it or the read from it fails, as a trap or an error.           *)
(***************************************************************************)
EXTENDS Integers, Sequences, FiniteSets

CONSTANTS
    Modules,        \* compiled and uncompilable modules: [valid, exports]
    States,         \* contract states
    Json,           \* those that parse as JSON
    Empty,          \* the state of no bytes
    Blank,          \* the state a fresh instance holds
    Args,           \* the argument bytes tried, as states: deploy may keep them
    Size,           \* the number of bytes of a state
    Answers,        \* what get_state_size and get_state may return, as i32
    MaxGas,         \* VmConfig::max_gas
    HostCost,       \* fuel_costs, scaled down
    BufSize,        \* GET_STATE_BUF_SIZE
    MaxState,       \* MAX_STATE_SIZE
    MaxBurn,        \* bound: fuel burnt between two events of the guest
    MaxHostCalls,   \* bound: host calls of one execution
    None            \* no execution, no result

Exports == {"start", "allocate", "deallocate", "init", "restore_state", "call",
            "get_state", "get_state_size"}

ASSUME RuntimeAssumption ==
    /\ \A m \in Modules : m.valid \in BOOLEAN /\ m.exports \subseteq Exports
    /\ {Empty, Blank} \cup Json \cup Args \subseteq States
    /\ Size \in [States -> Nat] /\ Size[Empty] = 0 /\ Answers \subseteq Int
    /\ {MaxGas, BufSize, MaxState, MaxBurn, MaxHostCalls} \subseteq Nat \ {0}
    /\ \A h \in DOMAIN HostCost : HostCost[h] \in Nat

VARIABLES
    obj,        \* the object: its module (the pinned code_hash) and its state
    busy,       \* an execution is under way
    job,        \* it, or the last one: operation, module, arguments, object before
    todo,       \* guest functions still to be called, in order
    inside,     \* the first of them is running
    fuel,       \* store.get_fuel()
    guest,      \* the state the contract holds in its memory
    buf,        \* buf_size
    data,       \* updated_state_data (state_data in deploy)
    ctx,        \* HostContext: how many effects of each kind
    out,        \* the last ExecutionResult
    spent,      \* history: all fuel charged to this execution
    calls,      \* history: host calls of this execution
    told,       \* history: the length get_state answered, and the state it wrote
    honest,     \* history: before `call', only restore_state changed the contract's
                \* state, and to the one it was handed
    seen,       \* history: what the contract held when `call' began
    trapped     \* history: functions of this execution that trapped, with the cause

machine == <<busy, job, todo, inside, fuel, guest, buf, data, ctx>>
history == <<spent, calls, told, honest, seen, trapped>>
vars == <<obj, machine, out, history>>

Effects == {"events", "created_objects", "stealth_settlements", "mweb_peg_outs"}
Effect == [host_emit_event |-> "events",
           host_create_object |-> "created_objects",
           host_stealth_settle |-> "stealth_settlements",
           host_mweb_peg_out |-> "mweb_peg_outs"]
Getters == {"host_get_caller", "host_get_satoshis", "host_get_seal"}

MinOf(a, b) == IF a < b THEN a ELSE b
MaxOf(a, b) == IF a < b THEN b ELSE a

-----------------------------------------------------------------------------
(* The calls of the two operations.                                        *)

\* if let Ok(f) = instance.get_typed_func(...): the call is made if m exports f.
if_exported(m, f) == IF f \in m.exports THEN <<f>> ELSE <<>>
when(c, s) == IF c THEN s ELSE <<>>

get_state_plan(m) ==
    when("get_state" \in m.exports,
         if_exported(m, "get_state_size") \o <<"allocate", "get_state">>
            \o if_exported(m, "deallocate"))

deploy_plan(m, args) ==
    if_exported(m, "start")
      \o when("init" \in m.exports,
              when(args # Empty, <<"allocate">>) \o <<"init">>
                \o when(args # Empty, if_exported(m, "deallocate")))
      \o get_state_plan(m)

restore_plan(m, state) ==
    when(state # Empty,
         <<"allocate">> \o if_exported(m, "restore_state") \o if_exported(m, "deallocate"))

call_plan(m, args) ==
    if_exported(m, "allocate") \o when(args # Empty, <<"allocate">>)
      \o if_exported(m, "call")
      \o when("allocate" \in m.exports, if_exported(m, "deallocate"))
      \o when(args # Empty, if_exported(m, "deallocate"))

execute_plan(m, state, args) ==
    if_exported(m, "start") \o restore_plan(m, state) \o call_plan(m, args)
      \o get_state_plan(m)

\* The ABI checks of execute: nothing can be handed over without `allocate'.
abi_ok(m, state, args) ==
    \/ "allocate" \in m.exports
    \/ args = Empty /\ state = Empty /\ m.exports \cap {"get_state", "call"} = {}

-----------------------------------------------------------------------------
Init ==
    /\ obj = None /\ out = None
    /\ busy = FALSE /\ job = None /\ todo = <<>> /\ inside = FALSE /\ fuel = 0
    /\ guest = Blank /\ buf = BufSize /\ data = Empty
    /\ ctx = [e \in Effects |-> 0]
    /\ spent = 0 /\ calls = 0 /\ told = [len |-> 0, wrote |-> Blank] /\ honest = TRUE
    /\ seen = None /\ trapped = {}

\* A fresh Store with the whole allowance, and a fresh instance in it.
instantiate(op, m, args, plan, old) ==
    /\ busy' = TRUE /\ job' = [op |-> op, module |-> m, args |-> args, before |-> obj]
    /\ todo' = plan /\ inside' = FALSE /\ fuel' = MaxGas
    /\ guest' = Blank /\ buf' = BufSize /\ data' = old
    /\ ctx' = [e \in Effects |-> 0]
    /\ out' = None
    /\ spent' = 0 /\ calls' = 0 /\ told' = [len |-> 0, wrote |-> Blank] /\ honest' = TRUE
    /\ seen' = None /\ trapped' = {}
    /\ UNCHANGED obj

\* VmRuntime::deploy up to its first call.
deploy(m, args) ==
    /\ ~busy /\ obj = None /\ m.valid
    /\ instantiate("deploy", m, args, deploy_plan(m, args), Empty)

\* VmRuntime::execute up to its first call: the code is the pinned one.
execute(m, args) ==
    /\ ~busy /\ obj # None
    /\ m = obj.code /\ m.valid /\ abi_ok(m, obj.state, args)
    /\ instantiate("execute", m, args, execute_plan(m, obj.state, args), obj.state)

\* The early returns of both: other code, a module that does not compile, no ABI.
refuse(m, args) ==
    /\ ~busy
    /\ IF obj = None THEN ~m.valid
       ELSE m # obj.code \/ ~m.valid \/ ~abi_ok(m, obj.state, args)
    /\ out' = [ok |-> FALSE]
    /\ trapped' = {}
    /\ UNCHANGED <<obj, machine, spent, calls, told, honest, seen>>

-----------------------------------------------------------------------------
(* The guest.                                                              *)

\* Errors of these are returned with `?'; those of the others are dropped.
\* Mutant: a trap of call() counts as a return.
fatal_but_call == {"start", "allocate", "init", "restore_state"}

fatal == {"start", "allocate", "init", "restore_state", "call"}

\* consume_fuel(true): whatever the guest does between two events costs fuel.
\* Mutant: the guest runs without metering.
burn_unmetered == 0..MaxBurn

burn == 1..MaxBurn

\* The call of the next function, which stops at once if no fuel is left or if
\* the module has no such function.
enter ==
    /\ todo # <<>> /\ ~inside
    /\ fuel > 0 /\ Head(todo) \in job.module.exports
    /\ inside' = TRUE
    /\ seen' = IF Head(todo) = "call" THEN guest ELSE seen
    /\ UNCHANGED <<obj, busy, job, todo, fuel, guest, buf, data, ctx, out, spent, calls, told,
                   honest, trapped>>

\* Instructions of the guest; every function of it may change what it holds.
work ==
    /\ inside
    /\ \E b \in burn, s \in States :
          /\ b <= fuel
          /\ fuel' = fuel - b /\ spent' = spent + b /\ guest' = s
          /\ honest' = (honest /\ (s = guest \/ seen # None))
    /\ UNCHANGED <<obj, busy, job, todo, inside, buf, data, ctx, out, calls, told, seen, trapped>>

\* fuel.saturating_sub(cost).
\* Mutant: the cost is read and not taken.
charge_nothing(cost) == fuel

charge(cost) == IF cost > fuel THEN 0 ELSE fuel - cost

\* A host function: the fuel, then the effect.  A range the guest's memory does
\* not hold makes host_emit_event do nothing and host_create_object trap.
host_call(h) ==
    /\ inside /\ calls < MaxHostCalls
    /\ fuel' = charge(HostCost[h])
    /\ spent' = spent + HostCost[h] /\ calls' = calls + 1
    /\ \/ h \in DOMAIN Effect /\ ctx' = [ctx EXCEPT ![Effect[h]] = @ + 1]
       \/ h \in Getters \cup {"host_emit_event"} /\ UNCHANGED ctx
    /\ UNCHANGED <<obj, busy, job, todo, inside, guest, buf, data, out, told, honest, seen, trapped>>

\* The error return of deploy and of execute; the object stays as it was.
fail ==
    /\ out' = [ok |-> FALSE]
    /\ busy' = FALSE /\ todo' = <<>> /\ inside' = FALSE
    /\ UNCHANGED <<obj, job, fuel, guest, buf, data, ctx>>

\* The next function is done and data' is set.
next_call ==
    /\ todo' = Tail(todo) /\ inside' = FALSE
    /\ UNCHANGED <<obj, busy, job, fuel, guest, buf, ctx, out>>

\* The first len bytes of a buffer that a state was written to: the state, if
\* that is its length, else some other bytes.
first_bytes(state, len) == {s \in States : Size[s] = len /\ (Size[state] = len => s = state)}

\* What the host does with the len bytes that get_state says it wrote.
\* Mutant: no overflow guard, the buffer is taken for the state.
read_state_cut(len) ==
    \/ len <= 0 /\ data' = data /\ next_call
    \/ len > 0 /\ data' \in first_bytes(guest, MinOf(len, buf)) /\ next_call
    \/ len > 0 /\ fail

\* Nothing, a read of that many bytes, or an error: the buffer is smaller, or
\* its range is not in the guest's memory.
read_state(len) ==
    \/ len <= 0 /\ data' = data /\ next_call
    \/ len > 0 /\ len <= buf /\ data' \in first_bytes(guest, len) /\ next_call
    \/ len > 0 /\ fail

\* buf_size from the answer of get_state_size.
state_buf(actual) == IF actual > 0 THEN MinOf(actual, MaxState) ELSE BufSize

\* Function f has returned; `len' is what get_state or get_state_size answers,
\* and `took' says whether restore_state took the state over.
answer(f, len, took) ==
    \/ /\ f = "get_state" /\ read_state(len)
       /\ told' = [len |-> len, wrote |-> guest]
       /\ UNCHANGED honest
    \/ /\ f # "get_state"
       /\ buf' = IF f = "get_state_size" THEN state_buf(len) ELSE buf
       /\ guest' = IF f = "restore_state" /\ took THEN job.before.state ELSE guest
       /\ honest' = IF f = "restore_state" THEN took ELSE honest
       /\ todo' = Tail(todo) /\ inside' = FALSE
       /\ UNCHANGED <<obj, busy, job, fuel, data, ctx, out, told>>

\* A function returns, with any answer; the lengths are looked at, the values of
\* restore_state and of call are not.
return ==
    /\ inside
    /\ \E len \in Answers, took \in BOOLEAN : answer(Head(todo), len, took)
    /\ UNCHANGED <<spent, calls, seen, trapped>>

\* A function traps: out of fuel, or of its own (abort, a bad host argument).
trap ==
    /\ todo # <<>>
    /\ inside \/ fuel = 0 \/ Head(todo) \notin job.module.exports
    /\ \E cause \in {"fuel", "guest"} :
          /\ cause = "fuel" => fuel = 0
          /\ cause = "guest" => inside \/ Head(todo) \notin job.module.exports
          /\ trapped' = trapped \cup {<<Head(todo), cause>>}
    /\ IF Head(todo) \in fatal THEN fail /\ UNCHANGED <<told, honest>>
       ELSE answer(Head(todo), 0, FALSE)
    /\ UNCHANGED <<spent, calls, seen>>

\* self.config.max_gas.saturating_sub(fuel_left).
gas_consumed == MaxGas - fuel

\* The end of both operations, and what the caller makes of it: a deployed
\* object is stored, a called one only if its state parses (execute_wasm).
finish ==
    /\ busy /\ todo = <<>>
    /\ LET deployed == job.op = "deploy"
           state == IF deployed /\ data = Empty THEN job.args ELSE data
           ok == deployed \/ state \in Json
       IN /\ out' = IF ok THEN [ok |-> TRUE, gas |-> gas_consumed, state |-> state]
                    ELSE [ok |-> FALSE]
          /\ obj' = IF ok THEN [code |-> job.module, state |-> state] ELSE obj
    /\ busy' = FALSE
    /\ UNCHANGED <<job, todo, inside, fuel, guest, buf, data, ctx, history>>

-----------------------------------------------------------------------------
Guest == enter \/ work \/ return \/ trap \/ \E h \in DOMAIN HostCost : host_call(h)

Next ==
    \/ \E m \in Modules, args \in Args : deploy(m, args) \/ execute(m, args) \/ refuse(m, args)
    \/ Guest
    \/ finish

Spec == Init /\ [][Next]_vars

\* Wasmtime runs the guest on the calling thread until it returns or traps.
FairSpec == Spec /\ WF_vars(Guest \/ finish)
-----------------------------------------------------------------------------
(* Properties.                                                             *)

Results == {[ok |-> FALSE]}
           \cup [ok : {TRUE}, gas : 0..MaxGas, state : States]
Objects == [code : Modules, state : States]

\* Types.  The fuel never wraps below zero, however little is left when a host
\* call is charged (saturating_sub in every host function of build_linker).
RuntimeTypeOK ==
    /\ obj \in Objects \cup {None} /\ out \in Results \cup {None}
    /\ busy \in BOOLEAN /\ inside \in BOOLEAN
    /\ job = None \/ job \in [op : {"deploy", "execute"}, module : Modules,
                              args : States, before : Objects \cup {None}]
    /\ todo \in Seq(Exports) /\ (inside => busy /\ todo # <<>>)
    /\ fuel \in 0..MaxGas /\ buf \in 1..MaxOf(BufSize, MaxState)
    /\ {guest, data} \subseteq States
    /\ \A e \in Effects : ctx[e] \in 0..MaxHostCalls

Succeeded == ~busy /\ out # None /\ out.ok

\* Of a well-typed execution gas_consumed is all the fuel the guest and the host calls were charged, cut
\* off at max_gas: the order of guest and host charges loses none of it.
GasExact == RuntimeTypeOK /\ (Succeeded => out.gas = MinOf(MaxGas, spent))

\* What the operation was given: the arguments of a deployment, the object's state.
given == IF job.op = "deploy" THEN job.args ELSE job.before.state

\* The state the contract should hold when it is called.
handed ==
    IF "restore_state" \in job.module.exports /\ job.before.state # Empty
    THEN job.before.state ELSE Blank

\* The state that deploy and execute return, whatever get_state_size answered
\* before: the one they were given, if get_state is missing, traps or answers no
\* length; else exactly as many bytes as it answered, never more than the two
\* buffer limits allow and never cut to the buffer.  These are the contract's
\* whole state only if it answers that state's length: nothing else checks it.
\* And call() of a contract whose state nothing but restore_state changed runs
\* on the object's state, or on a fresh instance if it cannot be handed over.
StateCarried ==
    Succeeded =>
        /\ told.len <= 0 => out.state = given
        /\ told.len > 0 =>
              /\ Size[out.state] = told.len /\ told.len <= MaxOf(BufSize, MaxState)
              /\ Size[told.wrote] = told.len => out.state = told.wrote
        /\ job.op = "execute" /\ seen # None /\ honest => seen = handed

\* The object moves on only with an execution none of whose init, call,
\* restore_state and allocate trapped.
ContractTrapReverts ==
    (\E f \in {"start", "allocate", "init", "restore_state", "call"}, c \in {"fuel", "guest"} :
        <<f, c>> \in trapped)
    => obj = job.before

\* Every execution ends: the guest cannot outrun its fuel.
ExecutionEnds == busy ~> ~busy

\* MISSION.md: fuel exhaustion reverts.  The errors of get_state and of
\* deallocate are dropped: a call that runs out of fuel in one of them succeeds.
FuelExhaustionReverts ==
    Succeeded /\ job.op = "execute" => \A f \in Exports : <<f, "fuel">> \notin trapped
=============================================================================
