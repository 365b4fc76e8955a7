---------------------------- MODULE RuntimeProofs ----------------------------
(***************************************************************************)
(* Proofs about the contract runtime, for any modules, states, costs and   *)
(* limits and any guest: the gas that is reported, the state that comes    *)
(* back, and the object after a trap.                                      *)
(***************************************************************************)
EXTENDS Runtime, TLAPS

Jobs == [op : {"deploy", "execute"}, module : Modules, args : States,
         before : Objects \cup {None}]

\* The order of the plans: one restore_state, before the one call, and one
\* get_state.
Follows(f, g) ==
    /\ f = "restore_state" => g # "restore_state"
    /\ f = "call" => g \notin {"restore_state", "call"}
    /\ f = "get_state" => g # "get_state"
Ordered(s) == \A i, j \in 1..Len(s) : i < j => Follows(s[i], s[j])

Has(s, f) == \E i \in 1..Len(s) : s[i] = f

\* A part of a plan, with calls of E only.
Part(s, E) == s \in Seq(E) /\ Ordered(s)

\* Functions that may come anywhere.
Neutral == {"start", "allocate", "deallocate", "get_state_size"}

\* No plan of deploy restores a state, and no plan of execute runs init.
Foreign == [deploy |-> "restore_state", execute |-> "init"]

\* The execution under way, and its place in the plan.
JobTypes ==
    /\ busy \in BOOLEAN /\ inside \in BOOLEAN
    /\ obj \in Objects \cup {None}
    /\ job = None \/ job \in Jobs
    /\ busy => job \in Jobs /\ obj = job.before /\ (job.op = "execute" => job.before \in Objects)
    /\ inside => busy /\ todo # <<>>
    /\ ~busy => todo = <<>>

TodoTypes ==
    /\ todo \in Seq(Exports) /\ Ordered(todo)
    /\ \A i \in 1..Len(todo) : todo[i] # Foreign[job.op]

\* Fuel, effects and result.  The fuel is what the charges have left of MaxGas.
Accounts ==
    /\ out \in Results \cup {None}
    /\ busy => out = None
    /\ fuel \in 0..MaxGas /\ spent \in Nat
    /\ busy \/ Succeeded => fuel = IF spent > MaxGas THEN 0 ELSE MaxGas - spent
    /\ Succeeded => out.gas = MaxGas - fuel
    /\ calls \in 0..MaxHostCalls /\ ctx \in [Effects -> Nat]
    /\ \A e \in Effects : ctx[e] <= calls

StateTypes ==
    /\ guest \in States /\ data \in States
    /\ buf \in 1..MaxOf(BufSize, MaxState)
    /\ told \in [len : Int, wrote : States]

RuntimeTypes == JobTypes /\ TodoTypes /\ Accounts /\ StateTypes

\* What an execution starts from.
Old == IF job.op = "deploy" THEN Empty ELSE job.before.state

\* The bytes that get_state has said it wrote.
IsRead(state) ==
    /\ Size[state] = told.len /\ told.len <= MaxOf(BufSize, MaxState)
    /\ Size[told.wrote] = told.len => state = told.wrote

\* The state is replaced once, by what get_state says.
DataKept ==
    busy => /\ Has(todo, "get_state") \/ told.len <= 0 => data = Old
            /\ told.len > 0 => IsRead(data)

\* restore_state is still to come, or its effect, if there is one to be had, is
\* what an honest contract holds until it is called.
CallInput ==
    busy /\ job.op = "execute" =>
        /\ Has(todo, "restore_state") => seen = None /\ handed = job.before.state
        /\ \A i \in 1..Len(todo) : todo[i] = "call" /\ ~(i = 1 /\ inside) => seen = None
        /\ ~ Has(todo, "restore_state") /\ seen = None /\ honest => guest = handed
        /\ seen # None /\ honest => seen = handed

NoFatalTrap == \A f \in fatal, c \in {"fuel", "guest"} : <<f, c>> \notin trapped

-----------------------------------------------------------------------------
(* The plans.                                                              *)

LEMMA HeadTail ==
    ASSUME NEW S, NEW s \in Seq(S), s # <<>>
    PROVE  /\ Len(s) \in Nat \ {0} /\ Head(s) = s[1] /\ Head(s) \in S
           /\ Tail(s) \in Seq(S) /\ Len(Tail(s)) = Len(s) - 1
           /\ \A i \in 1..(Len(s) - 1) : Tail(s)[i] = s[i + 1]
OBVIOUS

LEMMA ConcatProps ==
    ASSUME NEW S, NEW s \in Seq(S), NEW t \in Seq(S)
    PROVE  /\ s \o t \in Seq(S) /\ Len(s) \in Nat /\ Len(t) \in Nat
           /\ Len(s \o t) = Len(s) + Len(t)
           /\ \A i \in 1..Len(s) : (s \o t)[i] = s[i] /\ s[i] \in S
           /\ \A i \in (Len(s) + 1)..(Len(s) + Len(t)) :
                 i - Len(s) \in 1..Len(t) /\ (s \o t)[i] = t[i - Len(s)]
OBVIOUS

\* Calls of E and then calls of F, each part in order, are in order.
LEMMA PartConcat ==
    ASSUME NEW E, NEW F, NEW G, E \subseteq G, F \subseteq G, NEW s, NEW t,
           Part(s, E), Part(t, F), \A f \in E, g \in F : Follows(f, g)
    PROVE  Part(s \o t, G)
<1> USE DEF Part
<1>1. s \in Seq(G) /\ t \in Seq(G)
  OBVIOUS
<1>2. /\ s \o t \in Seq(G) /\ Len(s) \in Nat /\ Len(t) \in Nat
      /\ Len(s \o t) = Len(s) + Len(t)
      /\ \A i \in 1..Len(s) : (s \o t)[i] = s[i]
      /\ \A i \in (Len(s) + 1)..(Len(s) + Len(t)) :
            i - Len(s) \in 1..Len(t) /\ (s \o t)[i] = t[i - Len(s)]
  BY <1>1, ConcatProps
<1>3. /\ \A i \in 1..Len(s) : s[i] \in E
      /\ \A i \in 1..Len(t) : t[i] \in F
  OBVIOUS
<1> SUFFICES ASSUME NEW i \in 1..(Len(s) + Len(t)), NEW j \in 1..(Len(s) + Len(t)), i < j
             PROVE  Follows((s \o t)[i], (s \o t)[j])
  BY <1>2 DEF Ordered
<1>4. CASE j \in 1..Len(s)
  <2>1. i \in 1..Len(s)
    BY <1>2, <1>4
  <2> QED  BY <1>2, <1>4, <2>1 DEF Ordered
<1>5. CASE i \in 1..Len(s) /\ j \in (Len(s) + 1)..(Len(s) + Len(t))
  BY <1>2, <1>3, <1>5
<1>6. CASE i \in (Len(s) + 1)..(Len(s) + Len(t)) /\ j \in (Len(s) + 1)..(Len(s) + Len(t))
  <2>1. i - Len(s) < j - Len(s)
    BY <1>2
  <2> QED  BY <1>2, <1>6, <2>1 DEF Ordered
<1> QED  BY <1>2, <1>4, <1>5, <1>6

LEMMA NeutralConcat ==
    ASSUME NEW E, Neutral \subseteq E, NEW s, NEW t, Part(s, Neutral), Part(t, E)
    PROVE  Part(s \o t, E) /\ Part(t \o s, E)
<1>1. \A f \in Neutral, g \in E : Follows(f, g) /\ Follows(g, f)
  BY DEF Neutral, Follows
<1> QED  BY <1>1, PartConcat

\* The smallest parts.
LEMMA PartSmall ==
    ASSUME NEW E, NEW f \in E, NEW m, NEW c, NEW s, Part(s, E)
    PROVE  Part(<<f>>, E) /\ Part(if_exported(m, f), E) /\ Part(when(c, s), E)
<1>1. Len(<<>>) = 0 /\ Len(<<f>>) = 1 /\ <<f>> \in Seq(E) /\ <<>> \in Seq(E)
  OBVIOUS
<1>2. Part(<<>>, E) /\ Part(<<f>>, E)
  BY <1>1 DEF Part, Ordered
<1> QED  BY <1>2 DEF if_exported, when

LEMMA PartEmpty == ASSUME NEW E PROVE Part(<<>>, E)
<1>1. Len(<<>>) = 0 /\ <<>> \in Seq(E)
  OBVIOUS
<1> QED  BY <1>1 DEF Part, Ordered

LEMMA HasConcat ==
    ASSUME NEW G, NEW s \in Seq(G), NEW t \in Seq(G), NEW f
    PROVE  Has(s \o t, f) <=> Has(s, f) \/ Has(t, f)
<1>1. /\ Len(s) \in Nat /\ Len(t) \in Nat /\ Len(s \o t) = Len(s) + Len(t)
      /\ \A i \in 1..Len(s) : (s \o t)[i] = s[i]
      /\ \A i \in (Len(s) + 1)..(Len(s) + Len(t)) :
            i - Len(s) \in 1..Len(t) /\ (s \o t)[i] = t[i - Len(s)]
  BY ConcatProps
<1>2. ASSUME NEW i \in 1..Len(s), s[i] = f PROVE Has(s \o t, f)
  <2>1. i \in 1..Len(s \o t) /\ (s \o t)[i] = f
    BY <1>1, <1>2
  <2> QED  BY <2>1 DEF Has
<1>3. ASSUME NEW i \in 1..Len(t), t[i] = f PROVE Has(s \o t, f)
  <2>1. /\ Len(s) + i \in (Len(s) + 1)..(Len(s) + Len(t)) /\ (Len(s) + i) - Len(s) = i
        /\ Len(s) + i \in 1..Len(s \o t)
    BY <1>1
  <2>2. (s \o t)[Len(s) + i] = f
    BY <1>1, <1>3, <2>1
  <2> QED  BY <2>1, <2>2 DEF Has
<1>4. ASSUME NEW i \in 1..Len(s \o t), (s \o t)[i] = f PROVE Has(s, f) \/ Has(t, f)
  <2>1. CASE i \in 1..Len(s)
    BY <1>1, <1>4, <2>1 DEF Has
  <2>2. CASE i \in (Len(s) + 1)..(Len(s) + Len(t))
    BY <1>1, <1>4, <2>2 DEF Has
  <2> QED  BY <1>1, <2>1, <2>2
<1> QED  BY <1>2, <1>3, <1>4 DEF Has

LEMMA PartLacks ==
    ASSUME NEW E, NEW s, Part(s, E), NEW f, f \notin E
    PROVE  ~ Has(s, f)
BY DEF Part, Has

LEMMA GetStatePlan ==
    ASSUME NEW m
    PROVE  Part(get_state_plan(m), Neutral \cup {"get_state"})
<1> DEFINE E == Neutral \cup {"get_state"}
           a == if_exported(m, "get_state_size")
           b == <<"allocate", "get_state">>
           c == if_exported(m, "deallocate")
<1>1. b \in Seq(E) /\ Len(b) = 2 /\ b[1] = "allocate" /\ b[2] = "get_state"
  BY DEF Neutral
<1>2. Part(b, E)
  BY <1>1 DEF Ordered, Follows, Part
<1>3. Part(a, Neutral) /\ Part(c, Neutral)
  BY PartSmall, PartEmpty DEF Neutral
<1>4. get_state_plan(m) = when("get_state" \in m.exports, (a \o b) \o c)
  BY DEF get_state_plan
<1>5. Neutral \subseteq E /\ "get_state" \in E
  OBVIOUS
<1> HIDE DEF a, b, c, E
<1>6. Part((a \o b) \o c, E)
  BY <1>2, <1>3, <1>5, NeutralConcat
<1>7. Part(get_state_plan(m), E)
  BY <1>4, <1>5, <1>6, PartSmall
<1> QED  BY <1>7 DEF E

LEMMA DeployPlan ==
    ASSUME NEW m, NEW args
    PROVE  Part(deploy_plan(m, args), Exports \ {"restore_state"})
<1> DEFINE E == Neutral \cup {"init"}
           F == Neutral \cup {"get_state"}
           G == Exports \ {"restore_state"}
           a == when(args # Empty, <<"allocate">>)
           b == <<"init">>
           c == when(args # Empty, if_exported(m, "deallocate"))
           d == if_exported(m, "start")
           i == when("init" \in m.exports, (a \o b) \o c)
           g == get_state_plan(m)
<1>1. Part(<<"allocate">>, Neutral) /\ Part(if_exported(m, "deallocate"), Neutral) /\ Part(d, Neutral)
  BY PartSmall, PartEmpty DEF Neutral
<1>2. Part(a, Neutral) /\ Part(c, Neutral)
  BY <1>1, PartSmall DEF Neutral
<1>3. "init" \in E /\ Neutral \subseteq E /\ E \subseteq G /\ F \subseteq G
  BY DEF Neutral, Exports
<1>4. \A f \in E, h \in F : Follows(f, h)
  BY DEF Neutral, Follows
<1>5. Part(g, F)
  BY GetStatePlan
<1>6. deploy_plan(m, args) = (d \o i) \o g
  BY DEF deploy_plan
<1>7. Part(b, E)
  BY <1>3, PartSmall, PartEmpty
<1> HIDE DEF E, F, G, a, b, c, d, g
<1>8. Part((a \o b) \o c, E)
  BY <1>2, <1>3, <1>7, NeutralConcat
<1>9. Part(i, E)
  BY <1>3, <1>8, PartSmall
<1> HIDE DEF i
<1>10. Part(d \o i, E)
  BY <1>1, <1>3, <1>9, NeutralConcat
<1>11. Part((d \o i) \o g, G)
  BY <1>3, <1>4, <1>5, <1>10, PartConcat
<1> QED  BY <1>6, <1>11 DEF G

LEMMA ExecutePlan ==
    ASSUME NEW m, NEW state, NEW args
    PROVE  /\ Part(execute_plan(m, state, args), Exports \ {"init"})
           /\ Has(execute_plan(m, state, args), "restore_state")
                <=> "restore_state" \in m.exports /\ state # Empty
<1> DEFINE R == Neutral \cup {"restore_state"}
           C == Neutral \cup {"call"}
           F == Neutral \cup {"get_state"}
           RC == Neutral \cup {"restore_state", "call"}
           G == Exports \ {"init"}
           start == if_exported(m, "start")
           alloc == <<"allocate">>
           free == if_exported(m, "deallocate")
           mem == if_exported(m, "allocate")
           restore == if_exported(m, "restore_state")
           call == if_exported(m, "call")
           argmem == when(args # Empty, alloc)
           free1 == when("allocate" \in m.exports, free)
           free2 == when(args # Empty, free)
           r == when(state # Empty, (alloc \o restore) \o free)
           c == (((mem \o argmem) \o call) \o free1) \o free2
           g == get_state_plan(m)
<1>1. Part(start, Neutral) /\ Part(alloc, Neutral) /\ Part(free, Neutral) /\ Part(mem, Neutral)
  BY PartSmall, PartEmpty DEF Neutral
<1>2. "restore_state" \in R /\ "call" \in C
  OBVIOUS
<1>3. Part(restore, R) /\ Part(call, C)
  BY <1>2, PartSmall, PartEmpty
<1>4. Part(argmem, Neutral) /\ Part(free1, Neutral) /\ Part(free2, Neutral)
  BY <1>1, PartSmall DEF Neutral
<1>5. /\ Neutral \subseteq R /\ Neutral \subseteq C /\ R \subseteq RC /\ C \subseteq RC
      /\ RC \subseteq G /\ F \subseteq G
  BY DEF Neutral, Exports
<1>6. /\ \A f \in R, h \in C : Follows(f, h)
      /\ \A f \in RC, h \in F : Follows(f, h)
  BY DEF Neutral, Follows
<1>7. Part(g, F)
  BY GetStatePlan
<1>8. execute_plan(m, state, args) = ((start \o r) \o c) \o g
  BY DEF execute_plan, restore_plan, call_plan
<1>17. "restore_state" \notin Neutral \cup C \cup F
  BY DEF Neutral
<1>18. Has(restore, "restore_state") <=> "restore_state" \in m.exports
  <2>1. Len(<<>>) = 0 /\ Len(<<"restore_state">>) = 1 /\ <<"restore_state">>[1] = "restore_state"
    OBVIOUS
  <2> QED  BY <2>1 DEF Has, if_exported
<1> HIDE DEF R, C, F, RC, G, start, alloc, free, mem, restore, call, argmem, free1, free2, g
<1>9. Part((alloc \o restore) \o free, R)
  BY <1>1, <1>3, <1>5, NeutralConcat
<1>10. Part(r, R)
  BY <1>2, <1>9, PartSmall
<1>19. Has(r, "restore_state") <=> "restore_state" \in m.exports /\ state # Empty
  <2>1. ~ Has(alloc, "restore_state") /\ ~ Has(free, "restore_state")
    BY <1>1, <1>17, PartLacks
  <2>2. alloc \in Seq(R) /\ restore \in Seq(R) /\ free \in Seq(R) /\ alloc \o restore \in Seq(R)
    BY <1>1, <1>3, <1>5 DEF Part
  <2>3. Has((alloc \o restore) \o free, "restore_state") <=> "restore_state" \in m.exports
    BY <1>18, <2>1, <2>2, HasConcat
  <2>4. ~ Has(<<>>, "restore_state")
    BY PartEmpty, <1>17, PartLacks
  <2> QED  BY <2>3, <2>4 DEF when
<1>11. Part(mem \o argmem, Neutral)
  BY <1>1, <1>4, NeutralConcat
<1>12. Part(c, C)
  BY <1>3, <1>4, <1>5, <1>11, NeutralConcat
<1> HIDE DEF r, c
<1>13. Part(start \o r, R)
  BY <1>1, <1>5, <1>10, NeutralConcat
<1>14. Part((start \o r) \o c, RC)
  BY <1>5, <1>6, <1>12, <1>13, PartConcat
<1>15. Part(((start \o r) \o c) \o g, G)
  BY <1>5, <1>6, <1>7, <1>14, PartConcat
<1>16. Has(((start \o r) \o c) \o g, "restore_state") <=> Has(r, "restore_state")
  <2>1. ~ Has(start, "restore_state") /\ ~ Has(c, "restore_state") /\ ~ Has(g, "restore_state")
    BY <1>1, <1>7, <1>12, <1>17, PartLacks
  <2>2. /\ start \in Seq(G) /\ r \in Seq(G) /\ c \in Seq(G) /\ g \in Seq(G)
        /\ start \o r \in Seq(G) /\ (start \o r) \o c \in Seq(G)
    BY <1>1, <1>5, <1>7, <1>10, <1>12, <1>13, <1>14 DEF Part
  <2> DEFINE sr == start \o r
             src == sr \o c
  <2>3. Has(sr, "restore_state") <=> Has(r, "restore_state")
    BY <2>1, <2>2, HasConcat
  <2> HIDE DEF sr
  <2>4. Has(src, "restore_state") <=> Has(sr, "restore_state")
    <3>1. sr \in Seq(G)
      BY <2>2 DEF sr
    <3> QED  BY <2>1, <2>2, <3>1, HasConcat
  <2> HIDE DEF src
  <2>5. src \in Seq(G) /\ ((start \o r) \o c) \o g = src \o g
    BY <2>2 DEF sr, src
  <2>6. Has(src \o g, "restore_state") <=> Has(src, "restore_state")
    BY <2>1, <2>2, <2>5, HasConcat
  <2> QED  BY <2>3, <2>4, <2>5, <2>6
<1> QED  BY <1>8, <1>15, <1>16, <1>19 DEF G

-----------------------------------------------------------------------------
(* The types and the accounts.                                             *)

\* The next function has returned: the rest of the plan is in order too.
LEMMA TailTypes ==
    ASSUME TodoTypes, todo # <<>>, todo' = Tail(todo), job' = job
    PROVE  TodoTypes'
<1>1. /\ Len(todo) \in Nat \ {0} /\ todo' \in Seq(Exports) /\ Len(todo') = Len(todo) - 1
      /\ \A i \in 1..Len(todo') : todo'[i] = todo[i + 1] /\ i + 1 \in 1..Len(todo)
  BY HeadTail DEF TodoTypes
<1>2. Ordered(todo)'
  BY <1>1 DEF TodoTypes, Ordered
<1> QED  BY <1>1, <1>2 DEF TodoTypes

LEMMA EmptyTypes == ASSUME todo' = <<>> PROVE TodoTypes'
<1>1. Part(<<>>, Exports) /\ Len(<<>>) = 0
  BY PartEmpty
<1> QED  BY <1>1 DEF Part, TodoTypes

LEMMA InstantiateTypes ==
    ASSUME JobTypes, ~busy,
           NEW op \in {"deploy", "execute"}, NEW m \in Modules, NEW args \in Args, NEW plan,
           NEW old \in States, op = "execute" => obj \in Objects,
           Part(plan, Exports \ {Foreign[op]}), instantiate(op, m, args, plan, old)
    PROVE  RuntimeTypes'
<1>1. args \in States /\ Blank \in States /\ BufSize \in Nat \ {0} /\ MaxState \in Nat \ {0}
      /\ MaxGas \in Nat /\ MaxHostCalls \in Nat
  BY RuntimeAssumption
<1>2. job' \in Jobs /\ job'.op = op /\ job'.before = obj /\ obj' = obj /\ busy' = TRUE
      /\ inside' = FALSE
  BY <1>1 DEF instantiate, JobTypes, Jobs
<1>3. JobTypes'
  BY <1>2 DEF JobTypes
<1>4. TodoTypes'
  <2>1. todo' = plan /\ plan \in Seq(Exports \ {Foreign[op]}) /\ Ordered(plan)
    BY DEF instantiate, Part
  <2>2. plan \in Seq(Exports) /\ \A i \in 1..Len(plan) : plan[i] # Foreign[op]
    BY <2>1
  <2> QED  BY <1>2, <2>1, <2>2 DEF TodoTypes
<1>5. Accounts'
  BY <1>1 DEF instantiate, Accounts, Succeeded, Effects
<1>6. StateTypes'
  BY <1>1 DEF instantiate, StateTypes, MaxOf
<1> QED  BY <1>3, <1>4, <1>5, <1>6 DEF RuntimeTypes

LEMMA FailTypes ==
    ASSUME RuntimeTypes, fail, spent' = spent, calls' = calls,
           told' \in [len : Int, wrote : States]
    PROVE  RuntimeTypes'
<1>1. TodoTypes'
  BY EmptyTypes DEF fail
<1>2. JobTypes'
  BY DEF RuntimeTypes, JobTypes, fail
<1>3. Accounts'
  <2>1. out' = [ok |-> FALSE] /\ out' \in Results /\ ~out'.ok
    BY DEF fail, Results
  <2> QED  BY <2>1 DEF RuntimeTypes, Accounts, fail, Succeeded
<1>4. StateTypes'
  BY DEF RuntimeTypes, StateTypes, fail
<1> QED  BY <1>1, <1>2, <1>3, <1>4 DEF RuntimeTypes

LEMMA AnswerTypes ==
    ASSUME RuntimeTypes, todo # <<>>, NEW len \in Int, NEW took \in BOOLEAN,
           answer(Head(todo), len, took), spent' = spent, calls' = calls
    PROVE  RuntimeTypes'
<1>1. busy /\ job \in Jobs /\ (job.op = "execute" => job.before \in Objects)
  BY DEF RuntimeTypes, JobTypes
<1>2. /\ Head(todo) \in Exports /\ Head(todo) # Foreign[job.op]
  <2>1. Len(todo) \in Nat \ {0} /\ Head(todo) = todo[1] /\ Head(todo) \in Exports
    BY HeadTail DEF RuntimeTypes, TodoTypes
  <2> QED  BY <2>1 DEF RuntimeTypes, TodoTypes
<1>3. BufSize \in Nat \ {0} /\ MaxState \in Nat \ {0}
  BY RuntimeAssumption
<1>8. told' \in [len : Int, wrote : States]
  <2>1. told' = told \/ told' = [len |-> len, wrote |-> guest]
    BY DEF answer
  <2> QED  BY <2>1 DEF RuntimeTypes, StateTypes
<1>4. CASE fail
  BY <1>4, <1>8, FailTypes
<1>5. CASE /\ todo' = Tail(todo) /\ inside' = FALSE
           /\ UNCHANGED <<obj, busy, job, fuel, ctx, out>>
           /\ data' \in States /\ buf' \in {buf, state_buf(len)}
           /\ \/ guest' = guest
              \/ Head(todo) = "restore_state" /\ guest' = job.before.state
  <2>1. TodoTypes'
    BY <1>5, TailTypes DEF RuntimeTypes
  <2>2. JobTypes'
    BY <1>1, <1>5 DEF RuntimeTypes, JobTypes
  <2>3. Accounts'
    BY <1>5 DEF RuntimeTypes, Accounts, Succeeded
  <2>4. guest' \in States
    <3>1. CASE guest' = guest
      BY <3>1 DEF RuntimeTypes, StateTypes
    <3>2. CASE Head(todo) = "restore_state" /\ guest' = job.before.state
      <4>1. job.op = "execute"
        BY <1>1, <1>2, <3>2 DEF Foreign, Jobs
      <4> QED  BY <1>1, <3>2, <4>1 DEF Objects
    <3> QED  BY <1>5, <3>1, <3>2
  <2>5. state_buf(len) \in 1..MaxOf(BufSize, MaxState)
    BY <1>3 DEF state_buf, MinOf, MaxOf
  <2> QED  BY <1>5, <1>8, <2>1, <2>2, <2>3, <2>4, <2>5 DEF RuntimeTypes, StateTypes
<1>6. CASE Head(todo) = "get_state" /\ read_state(len)
  <2>1. data \in States /\ \A n : first_bytes(guest, n) \subseteq States
    BY DEF RuntimeTypes, StateTypes, first_bytes
  <2> QED  BY <1>4, <1>5, <1>6, <2>1 DEF read_state, next_call
<1>7. CASE Head(todo) # "get_state"
  <2>1. data \in States
    BY DEF RuntimeTypes, StateTypes
  <2> QED  BY <1>5, <1>7, <2>1 DEF answer
<1> QED  BY <1>6, <1>7 DEF answer

\* The execution is typed, its plan stays in order, and the fuel is always what
\* the charges so far have left, in every behaviour.
LEMMA RuntimeTypesInvariant == Spec => []RuntimeTypes
<1>1. Init => RuntimeTypes
  <2> SUFFICES ASSUME Init PROVE RuntimeTypes
    OBVIOUS
  <2>1. /\ {Empty, Blank} \subseteq States /\ BufSize \in Nat \ {0} /\ MaxState \in Nat \ {0}
        /\ MaxGas \in Nat /\ MaxHostCalls \in Nat
    BY RuntimeAssumption
  <2>2. todo = <<>> /\ Part(<<>>, Exports) /\ Len(<<>>) = 0
    BY PartEmpty DEF Init
  <2>3. TodoTypes
    BY <2>2 DEF TodoTypes, Part
  <2>4. JobTypes
    BY DEF Init, JobTypes
  <2>5. Accounts
    BY <2>1 DEF Init, Accounts, Succeeded, Effects
  <2>6. StateTypes
    BY <2>1 DEF Init, StateTypes, MaxOf
  <2> QED  BY <2>3, <2>4, <2>5, <2>6 DEF RuntimeTypes
<1>2. RuntimeTypes /\ [Next]_vars => RuntimeTypes'
  <2> SUFFICES ASSUME RuntimeTypes, [Next]_vars PROVE RuntimeTypes'
    OBVIOUS
  <2>1. ASSUME NEW m \in Modules, NEW args \in Args, deploy(m, args) PROVE RuntimeTypes'
    <3>1. Part(deploy_plan(m, args), Exports \ {Foreign["deploy"]}) /\ Empty \in States
      BY DeployPlan, RuntimeAssumption DEF Foreign
    <3>2. ~busy /\ JobTypes /\ instantiate("deploy", m, args, deploy_plan(m, args), Empty)
      BY <2>1 DEF deploy, RuntimeTypes
    <3> QED  BY <3>1, <3>2, InstantiateTypes
  <2>2. ASSUME NEW m \in Modules, NEW args \in Args, execute(m, args) PROVE RuntimeTypes'
    <3>1. obj \in Objects /\ obj.state \in States
      BY <2>2 DEF execute, RuntimeTypes, JobTypes, Objects
    <3>2. Part(execute_plan(m, obj.state, args), Exports \ {Foreign["execute"]})
      BY ExecutePlan DEF Foreign
    <3> QED  BY <2>2, <3>1, <3>2, InstantiateTypes DEF execute, RuntimeTypes
  <2>3. ASSUME NEW m \in Modules, NEW args \in Args, refuse(m, args) PROVE RuntimeTypes'
    <3>1. out' = [ok |-> FALSE] /\ out' \in Results /\ ~out'.ok /\ ~busy
      BY <2>3 DEF refuse, Results
    <3>2. UNCHANGED <<obj, machine, spent, calls, told>>
      BY <2>3 DEF refuse
    <3>3. JobTypes' /\ StateTypes'
      BY <3>2 DEF RuntimeTypes, JobTypes, StateTypes, machine
    <3>4. TodoTypes'
      BY <3>2 DEF RuntimeTypes, TodoTypes, Ordered, machine
    <3>5. Accounts'
      BY <3>1, <3>2 DEF RuntimeTypes, Accounts, Succeeded, machine
    <3> QED  BY <3>3, <3>4, <3>5 DEF RuntimeTypes
  <2>4. CASE enter
    <3>1. JobTypes' /\ StateTypes'
      BY <2>4 DEF enter, RuntimeTypes, JobTypes, StateTypes
    <3>2. TodoTypes'
      BY <2>4 DEF enter, RuntimeTypes, TodoTypes, Ordered
    <3>3. Accounts'
      BY <2>4 DEF enter, RuntimeTypes, Accounts, Succeeded
    <3> QED  BY <3>1, <3>2, <3>3 DEF RuntimeTypes
  <2>5. CASE work
    <3>1. PICK b \in burn, st \in States : b <= fuel /\ fuel' = fuel - b /\ spent' = spent + b /\ guest' = st
      BY <2>5 DEF work
    <3>2. b \in Nat \ {0} /\ MaxGas \in Nat
      BY RuntimeAssumption DEF burn
    <3>3. UNCHANGED <<obj, busy, job, todo, inside, buf, data, ctx, out, calls, told>> /\ inside
      BY <2>5 DEF work
    <3>4. JobTypes' /\ StateTypes'
      BY <3>1, <3>3 DEF RuntimeTypes, JobTypes, StateTypes
    <3>5. TodoTypes'
      BY <3>3 DEF RuntimeTypes, TodoTypes, Ordered
    <3>6. Accounts'
      <4>1. busy /\ out = None
        BY <3>3 DEF RuntimeTypes, JobTypes, Accounts
      <4> QED  BY <3>1, <3>2, <3>3, <4>1 DEF RuntimeTypes, Accounts, Succeeded
    <3> QED  BY <3>4, <3>5, <3>6 DEF RuntimeTypes
  <2>6. ASSUME NEW h \in DOMAIN HostCost, host_call(h) PROVE RuntimeTypes'
    <3>1. HostCost[h] \in Nat /\ MaxGas \in Nat /\ MaxHostCalls \in Nat
      BY RuntimeAssumption
    <3>2. /\ UNCHANGED <<obj, busy, job, todo, inside, guest, buf, data, out, told>> /\ inside
          /\ calls < MaxHostCalls /\ calls' = calls + 1 /\ spent' = spent + HostCost[h]
          /\ fuel' = IF HostCost[h] > fuel THEN 0 ELSE fuel - HostCost[h]
      BY <2>6 DEF host_call, charge
    <3>3. JobTypes' /\ StateTypes'
      BY <3>2 DEF RuntimeTypes, JobTypes, StateTypes
    <3>4. TodoTypes'
      BY <3>2 DEF RuntimeTypes, TodoTypes, Ordered
    <3>5. ctx' \in [Effects -> Nat] /\ \A e \in Effects : ctx'[e] <= ctx[e] + 1
      <4>1. ctx \in [Effects -> Nat]
        BY DEF RuntimeTypes, Accounts
      <4>2. CASE ctx' = ctx
        BY <4>1, <4>2
      <4>3. CASE h \in DOMAIN Effect /\ ctx' = [ctx EXCEPT ![Effect[h]] = @ + 1]
        <5>1. Effect[h] \in Effects
          BY <4>3 DEF Effect, Effects
        <5> QED  BY <4>1, <4>3, <5>1
      <4> QED  BY <2>6, <4>2, <4>3 DEF host_call
    <3>6. Accounts'
      <4>1. busy /\ out = None
        BY <3>2 DEF RuntimeTypes, JobTypes, Accounts
      <4> QED  BY <3>1, <3>2, <3>5, <4>1 DEF RuntimeTypes, Accounts, Succeeded
    <3> QED  BY <3>3, <3>4, <3>6 DEF RuntimeTypes
  <2>7. CASE return
    <3>1. PICK len \in Answers, took \in BOOLEAN : answer(Head(todo), len, took)
      BY <2>7 DEF return
    <3>2. len \in Int /\ todo # <<>>
      BY <2>7, RuntimeAssumption DEF return, RuntimeTypes, JobTypes
    <3> QED  BY <2>7, <3>1, <3>2, AnswerTypes DEF return
  <2>8. CASE trap
    <3>1. todo # <<>> /\ spent' = spent /\ calls' = calls
      BY <2>8 DEF trap
    <3>2. (fail /\ told' = told) \/ answer(Head(todo), 0, FALSE)
      BY <2>8 DEF trap
    <3>3. told \in [len : Int, wrote : States]
      BY DEF RuntimeTypes, StateTypes
    <3>4. 0 \in Int /\ FALSE \in BOOLEAN
      OBVIOUS
    <3> QED  BY <3>1, <3>2, <3>3, <3>4, FailTypes, AnswerTypes
  <2>9. CASE finish
    <3> DEFINE state == IF job.op = "deploy" /\ data = Empty THEN job.args ELSE data
    <3>1. UNCHANGED <<job, todo, inside, fuel, guest, buf, data, ctx, history>> /\ busy
          /\ todo = <<>> /\ busy' = FALSE
      BY <2>9 DEF finish
    <3>2. state \in States /\ job.module \in Modules
      BY <3>1 DEF RuntimeTypes, JobTypes, StateTypes, Jobs
    <3>3. \/ /\ out' = [ok |-> TRUE, gas |-> MaxGas - fuel, state |-> state]
             /\ obj' = [code |-> job.module, state |-> state]
          \/ out' = [ok |-> FALSE] /\ obj' = obj
      BY <2>9 DEF finish, gas_consumed
    <3> HIDE DEF state
    <3>4. MaxGas \in Nat
      BY RuntimeAssumption
    <3>5. JobTypes'
      <4>1. [code |-> job.module, state |-> state] \in Objects
        BY <3>2 DEF Objects
      <4> QED  BY <3>1, <3>3, <4>1 DEF RuntimeTypes, JobTypes
    <3>6. StateTypes'
      BY <3>1 DEF RuntimeTypes, StateTypes, history
    <3>7. TodoTypes'
      BY <3>1 DEF RuntimeTypes, TodoTypes, Ordered
    <3>8. Accounts'
      <4>1. /\ out' \in Results
            /\ out'.ok => out'.gas = MaxGas - fuel
        <5>1. MaxGas - fuel \in 0..MaxGas
          BY <3>4 DEF RuntimeTypes, Accounts
        <5>2. [ok |-> TRUE, gas |-> MaxGas - fuel, state |-> state] \in Results
          BY <3>2, <5>1 DEF Results
        <5>3. [ok |-> FALSE] \in Results
          BY DEF Results
        <5>4. CASE out' = [ok |-> FALSE]
          BY <5>3, <5>4
        <5>5. CASE out' = [ok |-> TRUE, gas |-> MaxGas - fuel, state |-> state]
          BY <5>2, <5>5
        <5> QED  BY <3>3, <5>4, <5>5
      <4> QED  BY <3>1, <4>1 DEF RuntimeTypes, Accounts, Succeeded, history
    <3> QED  BY <3>5, <3>6, <3>7, <3>8 DEF RuntimeTypes
  <2>10. CASE UNCHANGED vars
    BY <2>10 DEF vars, machine, history, RuntimeTypes, JobTypes, TodoTypes, Accounts, StateTypes,
                 Succeeded, Ordered
  <2> QED  BY <2>1, <2>2, <2>3, <2>4, <2>5, <2>6, <2>7, <2>8, <2>9, <2>10 DEF Next, Guest
<1> QED  BY <1>1, <1>2, PTL DEF Spec

\* The gas that deploy and execute report is all that the guest and the host
\* calls were charged, cut off at max_gas (gas_consumed with saturating_sub in
\* every host function), for any costs, limits and order of charges.
THEOREM GasCorrect == Spec => []GasExact
<1>1. RuntimeTypes => GasExact
  <2> SUFFICES ASSUME RuntimeTypes PROVE GasExact
    OBVIOUS
  <2>1. MaxGas \in Nat /\ MaxHostCalls \in Nat
    BY RuntimeAssumption
  <2>2. RuntimeTypeOK
    BY <2>1 DEF RuntimeTypes, JobTypes, TodoTypes, Accounts, StateTypes, RuntimeTypeOK, Jobs
  <2>3. Succeeded => out.gas = MinOf(MaxGas, spent)
    BY <2>1 DEF RuntimeTypes, Accounts, MinOf
  <2> QED  BY <2>2, <2>3 DEF GasExact
<1> QED  BY <1>1, RuntimeTypesInvariant, PTL

-----------------------------------------------------------------------------
(* Traps.                                                                  *)

\* A call whose allocate, init, restore_state or call trapped, of its own or
\* without fuel, leaves the object as it was: deploy and execute return the
\* error before anything is stored.
THEOREM TrapReverts == Spec => []ContractTrapReverts
<1> DEFINE Inv == ContractTrapReverts /\ (busy => NoFatalTrap)
<1>1. Init => Inv
  BY DEF Init, ContractTrapReverts
<1>2. RuntimeTypes /\ Inv /\ [Next]_vars => Inv'
  <2> SUFFICES ASSUME RuntimeTypes, Inv, [Next]_vars PROVE Inv'
    OBVIOUS
  <2>1. busy => obj = job.before
    BY DEF RuntimeTypes, JobTypes
  <2>2. ASSUME trapped' = {} PROVE Inv'
    BY <2>2 DEF ContractTrapReverts, NoFatalTrap
  <2>3. ASSUME UNCHANGED <<obj, job, trapped>>, busy' => busy PROVE Inv'
    BY <2>3 DEF ContractTrapReverts, NoFatalTrap
  <2>4. ASSUME NEW m \in Modules, NEW args \in Args,
               deploy(m, args) \/ execute(m, args) \/ refuse(m, args)
        PROVE  Inv'
    BY <2>2, <2>4 DEF deploy, execute, refuse, instantiate
  <2>5. CASE enter \/ work \/ return \/ \E h \in DOMAIN HostCost : host_call(h)
    BY <2>3, <2>5 DEF enter, work, return, host_call, answer, read_state, next_call, fail
  <2>6. CASE trap
    <3>1. /\ busy /\ obj' = obj /\ job' = job
      BY <2>6 DEF trap, answer, read_state, next_call, fail, RuntimeTypes, JobTypes
    <3>2. PICK c \in {"fuel", "guest"} : trapped' = trapped \cup {<<Head(todo), c>>}
      BY <2>6 DEF trap
    <3>3. CASE Head(todo) \in fatal
      BY <2>1, <2>6, <3>1, <3>3 DEF trap, fail, ContractTrapReverts
    <3>4. CASE Head(todo) \notin fatal
      <4>1. NoFatalTrap'
        BY <3>1, <3>2, <3>4 DEF NoFatalTrap
      <4> QED  BY <2>1, <3>1, <4>1 DEF ContractTrapReverts
    <3> QED  BY <3>3, <3>4
  <2>7. CASE finish
    <3>1. NoFatalTrap' /\ ~busy'
      BY <2>7 DEF finish, history, NoFatalTrap
    <3> QED  BY <3>1 DEF ContractTrapReverts, NoFatalTrap, fatal
  <2>8. CASE UNCHANGED vars
    BY <2>3, <2>8 DEF vars, machine, history
  <2> QED  BY <2>4, <2>5, <2>6, <2>7, <2>8 DEF Next, Guest
<1> QED  BY <1>1, <1>2, RuntimeTypesInvariant, PTL DEF Spec

-----------------------------------------------------------------------------
(* The state that comes back.                                              *)

\* The next function is done: what is said of every function of the plan still
\* holds of the rest.
LEMMA RestOfTodo ==
    ASSUME TodoTypes, todo # <<>>, todo' = Tail(todo)
    PROVE  /\ 1 \in 1..Len(todo) /\ Head(todo) = todo[1]
           /\ \A i \in 1..Len(todo') :
                 /\ i + 1 \in 1..Len(todo) /\ todo'[i] = todo[i + 1]
                 /\ Follows(todo[1], todo[i + 1])
<1>1. /\ Len(todo) \in Nat \ {0} /\ Head(todo) = todo[1] /\ Len(todo') = Len(todo) - 1
      /\ \A i \in 1..Len(todo') : todo'[i] = todo[i + 1] /\ i + 1 \in 1..Len(todo)
  BY HeadTail DEF TodoTypes
<1> QED  BY <1>1 DEF TodoTypes, Ordered

LEMMA RestHas ==
    ASSUME TodoTypes, todo # <<>>, todo' = Tail(todo), NEW f
    PROVE  /\ Has(todo', f) => Has(todo, f)
           /\ todo[1] # f => (Has(todo, f) => Has(todo', f))
           /\ ~ Follows(todo[1], f) => ~ Has(todo', f)
           /\ Has(todo, todo[1])
<1>1. /\ Len(todo) \in Nat \ {0} /\ Len(todo') = Len(todo) - 1
      /\ \A i \in 1..Len(todo') : /\ i + 1 \in 1..Len(todo) /\ todo'[i] = todo[i + 1]
                                  /\ Follows(todo[1], todo[i + 1])
  BY HeadTail, RestOfTodo DEF TodoTypes
<1>2. Has(todo', f) => Has(todo, f) /\ Follows(todo[1], f)
  BY <1>1 DEF Has
<1>3. ASSUME todo[1] # f, NEW i \in 1..Len(todo), todo[i] = f PROVE Has(todo', f)
  <2>1. i - 1 \in 1..Len(todo') /\ (i - 1) + 1 = i
    BY <1>1, <1>3
  <2> QED  BY <1>1, <1>3, <2>1 DEF Has
<1>4. Has(todo, todo[1])
  BY <1>1 DEF Has
<1> QED  BY <1>2, <1>3, <1>4 DEF Has

\* A function that has answered has ended the execution only with an error.
LEMMA AnswerGoesOn ==
    ASSUME busy, NEW f, NEW len, NEW took, answer(f, len, took)
    PROVE  busy' \/ ~out'.ok
<1>1. fail \/ busy' = busy
  BY DEF answer, read_state, next_call
<1>2. CASE fail
  BY <1>2 DEF fail
<1> QED  BY <1>1, <1>2

\* get_state has answered: data is the old state, or the bytes it said.
LEMMA AnswerRead ==
    ASSUME RuntimeTypes, DataKept, todo # <<>>, NEW len \in Int, NEW took,
           answer(Head(todo), len, took)
    PROVE  DataKept'
<1>1. CASE ~busy'
  BY <1>1 DEF DataKept
<1>2. CASE Head(todo) = "get_state" /\ ~fail
  <2>1. /\ read_state(len) /\ told' = [len |-> len, wrote |-> guest] /\ next_call
    BY <1>2 DEF answer, read_state
  <2>2. busy' = busy /\ job' = job /\ todo' = Tail(todo) /\ Head(todo) = todo[1]
    BY <2>1, RestOfTodo DEF next_call, RuntimeTypes
  <2>3. Has(todo, "get_state") /\ ~ Has(todo', "get_state")
    BY <1>2, <2>2, RestHas DEF Follows, RuntimeTypes
  <2>4. told'.len = len /\ told'.wrote = guest
    BY <2>1
  <2>5. CASE len <= 0
    <3>1. data' = data
      BY <1>2, <2>1, <2>5 DEF read_state
    <3> QED  BY <2>2, <2>3, <2>4, <2>5, <3>1 DEF DataKept, Old
  <2>6. CASE len > 0
    <3>1. len <= buf /\ data' \in first_bytes(guest, len)
      BY <1>2, <2>1, <2>6 DEF read_state
    <3>2. Size[data'] = len /\ (Size[guest] = len => data' = guest)
      BY <3>1 DEF first_bytes
    <3>3. len <= MaxOf(BufSize, MaxState)
      BY <3>1, RuntimeAssumption DEF RuntimeTypes, StateTypes, MaxOf
    <3>4. IsRead(data)'
      BY <2>4, <3>2, <3>3 DEF IsRead
    <3> QED  BY <2>3, <2>4, <2>6, <3>4 DEF DataKept
  <2> QED  BY <2>5, <2>6
<1>3. CASE Head(todo) # "get_state"
  <2>1. busy' = busy /\ job' = job /\ todo' = Tail(todo) /\ data' = data /\ told' = told
    BY <1>3 DEF answer
  <2>2. Has(todo', "get_state") => Has(todo, "get_state")
    BY <2>1, RestHas DEF RuntimeTypes
  <2> QED  BY <2>1, <2>2 DEF DataKept, Old, IsRead
<1> QED  BY <1>1, <1>2, <1>3 DEF fail

\* A function has answered: an honest contract still holds what it was given.
LEMMA AnswerInput ==
    ASSUME RuntimeTypes, CallInput, todo # <<>>, NEW len, NEW took \in BOOLEAN,
           answer(Head(todo), len, took), seen' = seen
    PROVE  CallInput'
<1>1. CASE ~busy'
  BY <1>1 DEF CallInput
<1>2. CASE busy'
  <2>1. /\ busy' = busy /\ job' = job /\ todo' = Tail(todo) /\ ~inside'
        /\ guest' = IF Head(todo) = "restore_state" /\ took THEN job.before.state ELSE guest
        /\ honest' = IF Head(todo) = "restore_state" THEN took ELSE honest
    BY <1>2 DEF answer, read_state, next_call, fail
  <2>2. Head(todo) = todo[1] /\ 1 \in 1..Len(todo)
        /\ \A i \in 1..Len(todo') : i + 1 \in 1..Len(todo) /\ todo'[i] = todo[i + 1] /\ i + 1 # 1
    BY <2>1, RestOfTodo DEF RuntimeTypes
  <2>3. /\ Has(todo', "restore_state") => Has(todo, "restore_state") /\ todo[1] # "restore_state"
        /\ todo[1] # "restore_state" => (Has(todo, "restore_state") => Has(todo', "restore_state"))
        /\ todo[1] = "restore_state" => Has(todo, "restore_state")
    BY <2>1, RestHas DEF RuntimeTypes, Follows
  <2>4. handed' = handed
    BY <2>1 DEF handed
  <2> SUFFICES ASSUME busy, job.op = "execute" PROVE CallInput'
    BY <2>1 DEF CallInput
  <2>5. CASE todo[1] = "restore_state"
    BY <2>1, <2>2, <2>3, <2>4, <2>5 DEF CallInput
  <2>6. CASE todo[1] # "restore_state"
    BY <2>1, <2>2, <2>3, <2>4, <2>6 DEF CallInput
  <2> QED  BY <2>5, <2>6
<1> QED  BY <1>1, <1>2

\* The state that deploy and execute return is the one they were given or the
\* bytes that get_state said it wrote, the contract's whole state if it said
\* that length, and call of an honest contract ran on the object's state: for
\* any module, buffer limits and guest, and whatever get_state_size and
\* get_state answer.
THEOREM StateCorrect == Spec => []StateCarried
<1> DEFINE Inv == StateCarried /\ DataKept /\ CallInput
<1>1. Init => Inv
  BY DEF Init, StateCarried, DataKept, CallInput, Succeeded
<1>2. RuntimeTypes /\ Inv /\ [Next]_vars => Inv'
  <2> SUFFICES ASSUME RuntimeTypes, Inv, [Next]_vars PROVE Inv'
    OBVIOUS
  <2>1. ASSUME busy' \/ out' = None \/ ~out'.ok PROVE StateCarried'
    BY <2>1 DEF StateCarried, Succeeded
  <2>2. ASSUME NEW m \in Modules, NEW args \in Args, deploy(m, args) PROVE Inv'
    <3>1. busy' /\ job'.op = "deploy" /\ data' = Empty /\ told'.len = 0
      BY <2>2 DEF deploy, instantiate
    <3> QED  BY <2>1, <3>1 DEF DataKept, CallInput, Old
  <2>3. ASSUME NEW m \in Modules, NEW args \in Args, execute(m, args) PROVE Inv'
    <3>1. /\ busy' /\ job'.op = "execute" /\ job'.before = obj /\ job'.module = m
          /\ data' = obj.state /\ told'.len = 0 /\ seen' = None /\ guest' = Blank
          /\ todo' = execute_plan(m, obj.state, args)
      BY <2>3 DEF execute, instantiate
    <3>2. Has(todo', "restore_state") <=> "restore_state" \in m.exports /\ obj.state # Empty
      BY <3>1, ExecutePlan
    <3>3. handed' = IF Has(todo', "restore_state") THEN obj.state ELSE Blank
      BY <3>1, <3>2 DEF handed
    <3>4. DataKept'
      BY <3>1 DEF DataKept, Old
    <3>5. CallInput'
      BY <3>1, <3>3 DEF CallInput
    <3> QED  BY <2>1, <3>1, <3>4, <3>5
  <2>4. ASSUME NEW m \in Modules, NEW args \in Args, refuse(m, args) PROVE Inv'
    <3>1. ~out'.ok /\ ~busy'
      BY <2>4 DEF refuse, machine
    <3> QED  BY <2>1, <3>1 DEF DataKept, CallInput
  <2>5. CASE enter
    <3>1. /\ busy /\ todo # <<>> /\ ~inside /\ inside'
          /\ seen' = IF Head(todo) = "call" THEN guest ELSE seen
          /\ UNCHANGED <<busy, job, todo, guest, data, out, told, honest>>
      BY <2>5 DEF enter, RuntimeTypes, JobTypes
    <3>2. 1 \in 1..Len(todo) /\ Head(todo) = todo[1]
      BY <3>1, HeadTail DEF RuntimeTypes, TodoTypes
    <3>3. todo[1] = "call" => ~ Has(todo, "restore_state")
      BY <3>2 DEF RuntimeTypes, TodoTypes, Ordered, Follows, Has
    <3>4. \A i \in 1..Len(todo) : todo[1] = "call" /\ i # 1 => todo[i] # "call"
      BY <3>2 DEF RuntimeTypes, TodoTypes, Ordered, Follows
    <3>5. DataKept'
      BY <3>1 DEF DataKept, Old, IsRead, Has
    <3>6. handed' = handed /\ (Has(todo', "restore_state") <=> Has(todo, "restore_state"))
      BY <3>1 DEF handed
    <3>7. CallInput'
      BY <3>1, <3>2, <3>3, <3>4, <3>6 DEF CallInput
    <3> QED  BY <2>1, <3>1, <3>5, <3>7
  <2>6. CASE work
    <3>1. /\ busy /\ inside /\ todo # <<>>
          /\ honest' = (honest /\ (guest' = guest \/ seen # None))
          /\ UNCHANGED <<busy, job, todo, inside, data, out, told, seen>>
      BY <2>6 DEF work, RuntimeTypes, JobTypes
    <3>2. DataKept'
      BY <3>1 DEF DataKept, Old, IsRead
    <3>3. handed' = handed /\ (Has(todo', "restore_state") <=> Has(todo, "restore_state"))
      BY <3>1 DEF handed
    <3>4. CallInput'
      BY <3>1, <3>3 DEF CallInput
    <3> QED  BY <2>1, <3>1, <3>2, <3>4
  <2>7. ASSUME NEW h \in DOMAIN HostCost, host_call(h) PROVE Inv'
    <3>1. busy /\ UNCHANGED <<busy, job, todo, inside, guest, data, out, told, honest, seen>>
      BY <2>7 DEF host_call, RuntimeTypes, JobTypes
    <3> QED  BY <2>1, <3>1 DEF DataKept, CallInput, Old, IsRead, handed
  <2>8. CASE return
    <3>1. busy /\ todo # <<>> /\ inside /\ seen' = seen
      BY <2>8 DEF return, RuntimeTypes, JobTypes
    <3>2. PICK len \in Answers, took \in BOOLEAN : answer(Head(todo), len, took)
      BY <2>8 DEF return
    <3>3. len \in Int
      BY RuntimeAssumption
    <3>4. DataKept' /\ CallInput'
      BY <3>1, <3>2, <3>3, AnswerRead, AnswerInput
    <3>5. busy' \/ ~out'.ok
      BY <3>1, <3>2, AnswerGoesOn
    <3> QED  BY <2>1, <3>4, <3>5
  <2>9. CASE trap
    <3>1. busy /\ todo # <<>> /\ seen' = seen
      BY <2>9 DEF trap, RuntimeTypes, JobTypes
    <3>2. CASE Head(todo) \in fatal
      BY <2>1, <2>9, <3>2 DEF trap, fail, DataKept, CallInput
    <3>3. CASE Head(todo) \notin fatal /\ answer(Head(todo), 0, FALSE)
      <4>0. 0 \in Int /\ FALSE \in BOOLEAN
        OBVIOUS
      <4>1. DataKept' /\ CallInput'
        BY <3>1, <3>3, <4>0, AnswerRead, AnswerInput
      <4>2. busy' \/ ~out'.ok
        BY <3>1, <3>3, AnswerGoesOn
      <4> QED  BY <2>1, <4>1, <4>2
    <3> QED  BY <2>9, <3>2, <3>3 DEF trap
  <2>10. CASE finish
    <3> DEFINE state == IF job.op = "deploy" /\ data = Empty THEN job.args ELSE data
    <3>1. UNCHANGED <<job, told, honest, seen>> /\ busy /\ ~busy'
      BY <2>10 DEF finish, history
    <3>2. (out' # None /\ out'.ok) => out'.state = state
      BY <2>10 DEF finish
    <3>3. job \in Jobs
      BY <3>1 DEF RuntimeTypes, JobTypes
    <3>4. told.len <= 0 => state = given
      BY <3>1, <3>3 DEF DataKept, Old, Jobs, given
    <3>5. told.len > 0 => IsRead(state)
      <4>1. told.len > 0 => data # Empty /\ IsRead(data)
        BY <3>1, RuntimeAssumption DEF DataKept, IsRead, RuntimeTypes, StateTypes
      <4> QED  BY <4>1
    <3>6. job.op = "execute" /\ seen # None /\ honest => seen = handed
      BY <3>1 DEF CallInput
    <3>7. given' = given /\ handed' = handed
      BY <3>1 DEF given, handed
    <3> HIDE DEF state
    <3>8. StateCarried'
      BY <3>1, <3>2, <3>4, <3>5, <3>6, <3>7 DEF StateCarried, Succeeded, IsRead
    <3> QED  BY <3>1, <3>8 DEF DataKept, CallInput
  <2>11. CASE UNCHANGED vars
    BY <2>11 DEF vars, machine, history, StateCarried, DataKept, CallInput, Succeeded, Old, IsRead,
                 given, handed
  <2> QED  BY <2>2, <2>3, <2>4, <2>5, <2>6, <2>7, <2>8, <2>9, <2>10, <2>11 DEF Next, Guest
<1> QED  BY <1>1, <1>2, RuntimeTypesInvariant, PTL DEF Spec
=============================================================================
