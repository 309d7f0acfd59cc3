---------------------------- MODULE DashboardProofs ---------------------------
(***************************************************************************)
(* Proofs about Dashboard: whatever moves while requests overlap, the      *)
(* depth on the overview is one the queue had, and a page gets what it can *)
(* show.                                                                   *)
(***************************************************************************)
EXTENDS Dashboard, TLAPS, WellFoundedInduction

(* A request is a record, whatever becomes of it. *)
RequestFields == {"stage", "of", "ids", "reply", "live"}

Shape ==
    /\ DOMAIN fetch = Slots
    /\ \A f \in Slots : DOMAIN fetch[f] = RequestFields

(* An answer on its way to the overview. *)
Carries(f) == fetch[f].of = "overview" /\ fetch[f].stage = "answered"

(* The present depth is on record, and so is every depth an answer carries *)
(* or the page shows.                                                      *)
DepthInv ==
    /\ Shape
    /\ Total \in totals
    /\ \A f \in Slots : Carries(f) => fetch[f].reply \in totals
    /\ DepthWasTrue

(* Whatever changes the lists records the depth after it. *)
Recorded ==
    /\ totals \subseteq totals'
    /\ Total' \in totals'
    /\ UNCHANGED <<fetch, stats>>

LEMMA RecordedKeeps == DepthInv /\ Recorded => DepthInv'
BY DEF DepthInv, Recorded, Shape, Carries, DepthWasTrue

LEMMA InitDepth == Init => DepthInv
<1> SUFFICES ASSUME Init PROVE DepthInv
    OBVIOUS
<1>1. Total \in totals
    BY DEF Init, Total, Tabs
<1>2. Shape /\ \A f \in Slots : ~Carries(f)
    BY DEF Init, Shape, RequestFields, Carries, Free
<1> QED BY <1>1, <1>2 DEF Init, DepthInv, DepthWasTrue

(* What a step does to one request: its fields afterwards. *)
LEMMA AdvanceFields ==
    ASSUME Shape, NEW f \in Slots, NEW stage, NEW ids, NEW reply,
           Advance(f, stage, ids, reply)
    PROVE  /\ Shape'
           /\ fetch'[f].stage = stage
           /\ fetch'[f].reply = reply
           /\ fetch'[f].of = fetch[f].of
           /\ \A g \in Slots \ {f} : fetch'[g] = fetch[g]
BY DEF Shape, RequestFields, Advance

LEMMA MovesKeep ==
    ASSUME DepthInv, NEW j \in Jobs,
           \/ Arrive(j) \/ Take(j) \/ Bury(j) \/ Evict(j) \/ Remake(j)
           \/ Check(j) \/ Retry(j) \/ ClickRetry(j)
    PROVE  DepthInv'
<1>1. CASE Arrive(j) \/ Take(j) \/ Bury(j) \/ Evict(j) \/ Remake(j)
    <2>1. Move
        BY <1>1 DEF Arrive, Take, Bury, Evict, Remake
    <2> QED BY <2>1, RecordedKeeps DEF Move, Recorded, viewVars, netVars
<1>2. CASE Retry(j)
    BY <1>2, RecordedKeeps DEF Retry, Recorded, viewVars, netVars
<1>3. CASE Check(j) \/ ClickRetry(j)
    <2>1. UNCHANGED <<list, totals, fetch, stats>>
        BY <1>3 DEF Check, ClickRetry, viewVars, netVars
    <2> QED BY <2>1, RecordedKeeps DEF Recorded, DepthInv, Total
<1> QED BY <1>1, <1>2, <1>3

(* Only ReadDepths answers the overview, with the depth of that moment. *)
LEMMA ServeKeeps ==
    ASSUME DepthInv, NEW f \in Slots, Serve(f) \/ Lose(f)
    PROVE  DepthInv'
<1>1. UNCHANGED <<list, totals, stats>>
    BY DEF Serve, ReadIds, ReadHashes, ReadDepths, Lose, storeVars, viewVars
<1>2. PICK stage, ids, reply :
          /\ Advance(f, stage, ids, reply)
          /\ fetch[f].of = "overview" /\ stage = "answered" => reply = Total
    <2>1. CASE ReadIds(f)
        BY <2>1 DEF ReadIds, Tabs
    <2>2. CASE ReadHashes(f)
        BY <2>2 DEF ReadHashes, Tabs
    <2>3. CASE ReadDepths(f)
        BY <2>3 DEF ReadDepths
    <2>4. CASE Lose(f)
        BY <2>4 DEF Lose
    <2> QED BY <2>1, <2>2, <2>3, <2>4 DEF Serve
<1>3. /\ Shape'
      /\ fetch'[f].stage = stage
      /\ fetch'[f].reply = reply
      /\ fetch'[f].of = fetch[f].of
      /\ \A g \in Slots \ {f} : fetch'[g] = fetch[g]
    BY <1>2, AdvanceFields DEF DepthInv
<1> QED BY <1>1, <1>2, <1>3 DEF DepthInv, Carries, DepthWasTrue, Total

(* What the pages do: a request is sent or freed, and the overview takes   *)
(* over an answer made for it, or forgets.                                 *)
LEMMA PagesKeep ==
    ASSUME DepthInv, NEW f \in Slots,
           \/ Answer(f)
           \/ \E p \in Pages : Mount(p, f)
           \/ \E t \in Tabs : SelectTab(t, f)
           \/ \E w \in Tabs \cup {"overview"} : Tick(w, f)
    PROVE  DepthInv'
<1>1. UNCHANGED <<list, totals>>
    BY DEF Answer, Mount, SelectTab, Tick, storeVars
<1>2. Shape' /\ \A g \in Slots : Carries(g)' => Carries(g) /\ fetch'[g].reply = fetch[g].reply
    <2>1. CASE Answer(f)
        BY <2>1 DEF Answer, DepthInv, Shape, RequestFields, Carries, Free
    <2>2. CASE \E p \in Pages : Mount(p, f)
        <3>1. PICK what : \A g \in Slots :
                  \/ fetch'[g] = Sent(what)
                  \/ fetch'[g] = [fetch[g] EXCEPT !.live = FALSE]
            BY <2>2 DEF Mount
        <3>2. DOMAIN fetch' = Slots
            BY <2>2 DEF Mount
        <3> QED BY <3>1, <3>2 DEF DepthInv, Shape, RequestFields, Carries, Sent, Free
    <2>3. CASE \/ \E t \in Tabs : SelectTab(t, f)
               \/ \E w \in Tabs \cup {"overview"} : Tick(w, f)
        <3>1. PICK what : fetch' = [fetch EXCEPT ![f] = Sent(what)]
            BY <2>3 DEF SelectTab, Tick
        <3> QED BY <3>1 DEF DepthInv, Shape, RequestFields, Carries, Sent, Free
    <2> QED BY <2>1, <2>2, <2>3
<1>3. stats' # Unknown => stats' \in totals
    <2>1. CASE Answer(f)
        BY <2>1 DEF Answer, DepthInv, Carries, DepthWasTrue
    <2>2. CASE \E p \in Pages : Mount(p, f)
        BY <2>2 DEF Mount
    <2>3. CASE \/ \E t \in Tabs : SelectTab(t, f)
               \/ \E w \in Tabs \cup {"overview"} : Tick(w, f)
        BY <2>3 DEF SelectTab, Tick, DepthInv, DepthWasTrue
    <2> QED BY <2>1, <2>2, <2>3
<1> QED BY <1>1, <1>2, <1>3 DEF DepthInv, DepthWasTrue, Total

LEMMA DepthStep == DepthInv /\ [Next]_vars => DepthInv'
<1> SUFFICES ASSUME DepthInv, [Next]_vars PROVE DepthInv'
    OBVIOUS
<1>1. CASE Next
    BY <1>1, MovesKeep, ServeKeeps, PagesKeep DEF Next
<1>2. CASE UNCHANGED vars
    <2>1. UNCHANGED <<list, totals, fetch, stats>>
        BY <1>2 DEF vars, storeVars, viewVars, netVars
    <2> QED BY <2>1, RecordedKeeps DEF Recorded, DepthInv, Total
<1> QED BY <1>1, <1>2

(* However many jobs, requests and moves there are, the depth on the       *)
(* overview was the depth of all lists at one moment (routes.ts 21-31).    *)
THEOREM DepthsWereTrue == Spec => []DepthWasTrue
<1>1. DepthInv => DepthWasTrue
    BY DEF DepthInv
<1> QED BY <1>1, InitDepth, DepthStep, PTL DEF Spec

-------------------------------------------------------------------------------
(* What the helpers compute, for every list. *)

(* Induction over the naturals, for a set of them. *)
LEMMA Induct ==
    ASSUME NEW P, 0 \in P, \A n \in Nat : n \in P => n + 1 \in P
    PROVE  \A n \in Nat : n \in P
<1> SUFFICES ASSUME Nat \ P # {} PROVE FALSE
    OBVIOUS
<1>1. PICK x \in Nat \ P : \A y \in Nat \ P : ~(<<y, x>> \in OpToRel(<, Nat))
    BY NatLessThanWellFounded, WFMin
<1>2. \A y \in Nat \ P : ~(y < x)
    BY <1>1 DEF OpToRel
<1>3. x # 0 /\ x - 1 \in Nat /\ x - 1 < x /\ (x - 1) + 1 = x
    OBVIOUS
<1>4. x - 1 \in P
    BY <1>2, <1>3
<1> QED BY <1>1, <1>3, <1>4

(* The recursion defines Kept: there is such a function for every list. *)
LEMMA KeptDef ==
    ASSUME NEW T, NEW s \in Seq(T), NEW S
    PROVE  Kept(s, S) = [n \in 0 .. Len(s) |->
              IF n = 0 THEN <<>>
              ELSE IF s[n] \in S THEN Append(Kept(s, S)[n - 1], s[n]) ELSE Kept(s, S)[n - 1]]
<1> DEFINE Upto(f, m) == f = [n \in 0 .. m |->
              IF n = 0 THEN <<>>
              ELSE IF s[n] \in S THEN Append(f[n - 1], s[n]) ELSE f[n - 1]]
           P == {m \in Nat : \E f : Upto(f, m)}
<1>1. 0 \in P
    <2>1. Upto([n \in 0 .. 0 |-> <<>>], 0)
        OBVIOUS
    <2> QED BY <2>1
<1>2. ASSUME NEW m \in Nat, m \in P PROVE m + 1 \in P
    <2>1. PICK f : Upto(f, m)
        BY <1>2
    <2> DEFINE g == [n \in 0 .. (m + 1) |->
                      IF n = m + 1
                        THEN IF s[n] \in S THEN Append(f[m], s[n]) ELSE f[m]
                        ELSE f[n]]
    <2>2. \A n \in 0 .. m : g[n] = f[n]
        OBVIOUS
    <2>3. g[m + 1] = IF s[m + 1] \in S THEN Append(f[m], s[m + 1]) ELSE f[m]
        OBVIOUS
    <2>4. \A n \in 0 .. m : f[n] = IF n = 0 THEN <<>>
                       ELSE IF s[n] \in S THEN Append(f[n - 1], s[n]) ELSE f[n - 1]
        BY <2>1
    <2>5. g = [n \in 0 .. (m + 1) |-> g[n]]
        OBVIOUS
    <2> HIDE DEF g
    <2>6. ASSUME NEW n \in 0 .. (m + 1)
          PROVE  g[n] = IF n = 0 THEN <<>>
                        ELSE IF s[n] \in S THEN Append(g[n - 1], s[n]) ELSE g[n - 1]
        <3>1. CASE n = m + 1
            <4>1. n # 0 /\ n - 1 = m /\ m \in 0 .. m
                BY <3>1
            <4> QED BY <2>2, <2>3, <3>1, <4>1
        <3>2. CASE n = 0
            BY <2>2, <2>4, <3>2
        <3>3. CASE n \in 1 .. m
            <4>1. n # 0 /\ n - 1 \in 0 .. m /\ n \in 0 .. m
                BY <3>3
            <4> QED BY <2>2, <2>4, <4>1
        <3> QED BY <3>1, <3>2, <3>3
    <2>7. Upto(g, m + 1)
        BY <2>5, <2>6
    <2> HIDE DEF Upto
    <2> QED BY <2>7
<1> HIDE DEF P
<1>3. Len(s) \in P
    BY <1>1, <1>2, Induct
<1>4. \E f : Upto(f, Len(s))
    BY <1>3 DEF P
<1> QED BY <1>4 DEF Kept

(* Only adds nothing and keeps nothing that is not in S. *)
LEMMA OnlyType ==
    ASSUME NEW T, NEW s \in Seq(T), NEW S
    PROVE  Only(s, S) \in Seq(T \cap S)
<1> DEFINE k == Kept(s, S)
           P == {m \in Nat : m \in 0 .. Len(s) => k[m] \in Seq(T \cap S)}
<1>0. k = [n \in 0 .. Len(s) |->
              IF n = 0 THEN <<>>
              ELSE IF s[n] \in S THEN Append(k[n - 1], s[n]) ELSE k[n - 1]]
    BY KeptDef
<1> HIDE DEF k
<1>1. 0 \in P
    <2>1. k[0] = <<>>
        BY <1>0
    <2>2. <<>> \in Seq(T \cap S)
        OBVIOUS
    <2> HIDE DEF P
    <2>3. k[0] \in Seq(T \cap S)
        BY <2>1, <2>2
    <2> QED BY <2>3 DEF P
<1>2. ASSUME NEW m \in Nat, m \in P PROVE m + 1 \in P
    <2> SUFFICES ASSUME m + 1 \in 0 .. Len(s)
                 PROVE  k[m + 1] \in Seq(T \cap S)
        OBVIOUS
    <2>1. k[m] \in Seq(T \cap S)
        BY <1>2
    <2>2. k[m + 1] = IF s[m + 1] \in S THEN Append(k[m], s[m + 1]) ELSE k[m]
        <3>1. m + 1 # 0 /\ (m + 1) - 1 = m
            OBVIOUS
        <3> QED BY <1>0, <3>1
    <2>3. s[m + 1] \in T
        OBVIOUS
    <2> QED BY <2>1, <2>2, <2>3
<1> HIDE DEF P
<1>3. Len(s) \in P
    BY <1>1, <1>2, Induct
<1> QED BY <1>3 DEF P, Only, k

(* A page is a list of jobs. *)
LEMMA PageType ==
    ASSUME DashboardAssumption, NEW T, NEW s \in Seq(T)
    PROVE  Page(s) \in Seq(T)
<1>1. PICK n \in Nat : n <= Len(s) /\ Page(s) = SubSeq(s, 1, n)
    BY DEF Page, DashboardAssumption
<1>2. SubSeq(s, 1, n) \in Seq(T)
    BY <1>1
<1> QED BY <1>1, <1>2

(* The rows of the jobs that have data are rows a page can show. *)
LEMMA RowsType ==
    ASSUME job \in [Jobs -> {"absent", "partial", "waiting", "active", "dead"}],
           NEW ids \in Seq(Jobs), Readable(ids)
    PROVE  Rows(ids) \in Seq(Row)
<1> DEFINE T     == {ids[i] : i \in DOMAIN ids}
           S     == {j \in Jobs : job[j] # "absent"}
           there == Only(ids, S)
<1>1. ids \in Seq(T)
    OBVIOUS
<1>2. there \in Seq(T \cap S)
    BY <1>1, OnlyType
<1>3. \A j \in T \cap S : j \in Jobs /\ job[j] \in {"waiting", "active", "dead"}
    BY DEF Readable
<1>4. Rows(ids) = [i \in DOMAIN there |-> [id |-> there[i], status |-> job[there[i]]]]
    BY DEF Rows
<1> HIDE DEF T, S, there
<1>5. \A i \in DOMAIN there : [id |-> there[i], status |-> job[there[i]]] \in Row
    BY <1>2, <1>3 DEF Row
<1>6. DOMAIN there = 1 .. Len(there) /\ Len(there) \in Nat
    BY <1>2
<1>7. Rows(ids) \in [1 .. Len(there) -> Row]
    BY <1>4, <1>5, <1>6
<1> QED BY <1>6, <1>7

-------------------------------------------------------------------------------
(* Types. *)

StoreType ==
    /\ list \in [Tabs -> Seq(Jobs)]
    /\ job \in [Jobs -> {"absent", "partial", "waiting", "active", "dead"}]
    /\ posts \in [Jobs -> [sent : Nat, passed : Nat]]
    /\ moves \in 0 .. MaxMoves
    /\ totals \subseteq Nat

ViewType ==
    /\ page \in Pages
    /\ tab \in Tabs
    /\ rows \in Seq(Row)
    /\ stats \in Nat \cup {Unknown}
    /\ loading \in BOOLEAN
    /\ intervals \subseteq Tabs \cup {"overview"}
    /\ clicks \in 0 .. MaxClicks

(* One request. *)
FetchType(r) ==
    /\ DOMAIN r = RequestFields
    /\ r.stage \in {"free", "sent", "listed", "answered", "failed"}
    /\ r.of \in Tabs \cup {"overview"}
    /\ r.ids \in Seq(Jobs)
    /\ r.stage = "answered" => r.reply \in IF r.of = "overview" THEN Nat ELSE Seq(Row)

NetType ==
    /\ gauge \in Nat
    /\ failures \in 0 .. MaxFailures
    /\ DOMAIN fetch = Slots
    /\ \A f \in Slots : FetchType(fetch[f])

Typed == StoreType /\ ViewType /\ NetType

LEMMA TypedIsTypeOK == Typed => TypeOK
BY DEF Typed, StoreType, ViewType, NetType, FetchType, TypeOK

LEMMA TotalType == list \in [Tabs -> Seq(Jobs)] => Total \in Nat
BY DEF Total, Tabs

LEMMA TotalTypeNext == list' \in [Tabs -> Seq(Jobs)] => Total' \in Nat
BY DEF Total, Tabs

LEMMA InitTyped == DashboardAssumption /\ Init => Typed
<1> SUFFICES ASSUME DashboardAssumption, Init PROVE Typed
    OBVIOUS
<1>1. StoreType
    BY DEF Init, StoreType, DashboardAssumption
<1>2. ViewType
    <2>1. <<>> \in Seq(Row)
        OBVIOUS
    <2>2. clicks \in 0 .. MaxClicks
        BY DEF Init, DashboardAssumption
    <2>3. page \in Pages /\ tab \in Tabs /\ rows = <<>>
        BY DEF Init, Pages, Tabs
    <2>4. stats = Unknown /\ loading = FALSE /\ intervals = {}
        BY DEF Init
    <2> QED BY <2>1, <2>2, <2>3, <2>4 DEF ViewType
<1>3. NetType
    <2>1. FetchType(Free)
        BY DEF FetchType, Free, RequestFields
    <2> QED BY <2>1 DEF Init, NetType, DashboardAssumption
<1> QED BY <1>1, <1>2, <1>3 DEF Typed

(* Whatever moves a job leaves lists of jobs, and touches no request. *)
LEMMA MovesTyped ==
    ASSUME DashboardAssumption, Typed, NEW j \in Jobs,
           \/ Arrive(j) \/ Take(j) \/ Bury(j) \/ Evict(j) \/ Remake(j)
           \/ Check(j) \/ Retry(j) \/ ClickRetry(j)
    PROVE  Typed'
<1>0. StoreType /\ ViewType /\ NetType
    BY DEF Typed
<1>1. list' \in [Tabs -> Seq(Jobs)]
    <2>1. list \in [Tabs -> Seq(Jobs)] /\ "waiting" \in Tabs /\ "dead" \in Tabs
        BY <1>0 DEF StoreType, Tabs
    <2>2. \A t \in Tabs : <<j>> \o list[t] \in Seq(Jobs)
        BY <2>1
    <2>3. CASE Arrive(j) \/ Bury(j)
        BY <2>1, <2>2, <2>3 DEF Arrive, Bury, Push
    <2>4. CASE Take(j)
        <3> DEFINE s == list["waiting"]
        <3>1. s \in Seq(Jobs) /\ s # <<>> /\ list' = [list EXCEPT !["waiting"] = SubSeq(s, 1, Len(s) - 1)]
            BY <2>1, <2>4 DEF Take
        <3> HIDE DEF s
        <3>2. SubSeq(s, 1, Len(s) - 1) \in Seq(Jobs)
            BY <3>1
        <3> QED BY <2>1, <3>1, <3>2
    <2>5. CASE Retry(j)
        <3>1. Only(list["dead"], Jobs \ {j}) \in Seq(Jobs \cap (Jobs \ {j}))
            BY <2>1, OnlyType
        <3>2. Only(list["dead"], Jobs \ {j}) \in Seq(Jobs)
            BY <3>1
        <3> DEFINE a == <<j>> \o list["waiting"]
                   b == Only(list["dead"], Jobs \ {j})
        <3>3. a \in Seq(Jobs) /\ b \in Seq(Jobs) /\ list' = [waiting |-> a, dead |-> b]
            BY <2>1, <2>2, <2>5, <3>2 DEF Retry
        <3> HIDE DEF a, b
        <3> QED BY <3>3 DEF Tabs
    <2>6. CASE Evict(j) \/ Remake(j) \/ Check(j) \/ ClickRetry(j)
        BY <2>1, <2>6 DEF Evict, Remake, Check, ClickRetry
    <2> QED BY <2>3, <2>4, <2>5, <2>6
<1>2. job' \in [Jobs -> {"absent", "partial", "waiting", "active", "dead"}]
    BY <1>0 DEF StoreType, Arrive, Take, Bury, Evict, Remake, Check, Retry, ClickRetry
<1>3. posts' \in [Jobs -> [sent : Nat, passed : Nat]]
    <2> DEFINE R == [sent : Nat, passed : Nat]
    <2>1. posts \in [Jobs -> R]
        BY <1>0 DEF StoreType
    <2>2. posts[j].sent \in Nat /\ posts[j].passed \in Nat
        BY <2>1
    <2>3. UNCHANGED posts \/ \E r \in R : posts' = [posts EXCEPT ![j] = r]
        <3>1. CASE Check(j)
            <4> DEFINE s == posts[j].sent - 1
                       n == posts[j].passed + IF job[j] = "dead" THEN 1 ELSE 0
            <4>1. posts' = [posts EXCEPT ![j] = [sent |-> s, passed |-> n]]
                BY <3>1 DEF Check
            <4>2. s \in Nat
                BY <2>2, <3>1 DEF Check
            <4>3. n \in Nat
                BY <2>2
            <4> HIDE DEF s, n
            <4> QED BY <4>1, <4>2, <4>3
        <3>2. CASE Retry(j)
            <4> DEFINE n == posts[j].passed - 1
            <4>1. posts' = [posts EXCEPT ![j] = [posts[j] EXCEPT !.passed = n]]
                BY <3>2 DEF Retry
            <4>2. n \in Nat
                BY <2>2, <3>2 DEF Retry
            <4> HIDE DEF n
            <4>3. [posts[j] EXCEPT !.passed = n] \in R
                BY <2>1, <4>2
            <4> HIDE DEF R
            <4> QED BY <4>1, <4>3
        <3>3. CASE ClickRetry(j)
            <4> DEFINE n == posts[j].sent + 1
            <4>1. posts' = [posts EXCEPT ![j] = [posts[j] EXCEPT !.sent = n]]
                BY <3>3 DEF ClickRetry
            <4>2. n \in Nat
                BY <2>2
            <4> HIDE DEF n
            <4>3. [posts[j] EXCEPT !.sent = n] \in R
                BY <2>1, <4>2
            <4> HIDE DEF R
            <4> QED BY <4>1, <4>3
        <3>4. CASE Arrive(j) \/ Take(j) \/ Bury(j) \/ Evict(j) \/ Remake(j)
            BY <3>4 DEF Arrive, Take, Bury, Evict, Remake
        <3> QED BY <3>1, <3>2, <3>3, <3>4
    <2> HIDE DEF R
    <2>4. posts' \in [Jobs -> R]
        BY <2>1, <2>3
    <2> QED BY <2>4 DEF R
<1>4. moves' \in 0 .. MaxMoves
    BY <1>0 DEF DashboardAssumption, StoreType, Arrive, Take, Bury, Evict, Remake, Check, Retry,
           ClickRetry, Move
<1>5. totals' \subseteq Nat
    <2>1. totals \subseteq Nat /\ Total' \in Nat
        BY <1>0, <1>1, TotalTypeNext DEF StoreType
    <2>2. totals' \in {totals, totals \cup {Total'}}
        BY DEF Arrive, Take, Bury, Evict, Remake, Check, Retry, ClickRetry, Move
    <2> QED BY <2>1, <2>2
<1>6. ViewType' /\ NetType'
    <2>1. UNCHANGED <<page, tab, rows, stats, loading, intervals, netVars>>
        BY DEF Arrive, Take, Bury, Evict, Remake, Check, Retry, ClickRetry, Move, viewVars
    <2>2. clicks' \in 0 .. MaxClicks
        BY <1>0 DEF DashboardAssumption, ViewType, Arrive, Take, Bury, Evict, Remake, Check,
               Retry, ClickRetry, Move, viewVars
    <2> QED BY <1>0, <2>1, <2>2 DEF ViewType, NetType, netVars
<1> QED BY <1>1, <1>2, <1>3, <1>4, <1>5, <1>6 DEF Typed, StoreType

(* The server answers a list with rows and the overview with a number. *)
LEMMA ServeTyped ==
    ASSUME DashboardAssumption, Typed, NEW f \in Slots, Serve(f) \/ Lose(f)
    PROVE  Typed'
<1>0. StoreType /\ ViewType /\ NetType /\ FetchType(fetch[f])
    BY DEF Typed, NetType
<1> DEFINE Fits(stage, ids, reply) ==
              /\ Advance(f, stage, ids, reply)
              /\ stage \in {"free", "sent", "listed", "answered", "failed"}
              /\ ids \in Seq(Jobs)
              /\ stage = "answered" =>
                    reply \in IF fetch[f].of = "overview" THEN Nat ELSE Seq(Row)
<1>1. \E stage, ids, reply : Fits(stage, ids, reply)
    <2>0. <<>> \in Seq(Jobs) /\ <<>> \in Seq(Row) /\ "overview" \notin Tabs
        BY DEF Tabs
    <2>1. CASE ReadIds(f)
        <3> DEFINE ids == Page(list[fetch[f].of])
        <3>1. ids \in Seq(Jobs)
            BY <1>0, <2>1, PageType DEF ReadIds, StoreType
        <3>2. /\ fetch[f].of # "overview"
              /\ Advance(f, IF ids = <<>> THEN "answered" ELSE "listed", ids,
                            IF ids = <<>> THEN <<>> ELSE Unknown)
            BY <2>0, <2>1 DEF ReadIds
        <3> HIDE DEF ids
        <3>3. CASE ids = <<>>
            <4>1. Fits("answered", ids, <<>>)
                BY <2>0, <3>1, <3>2, <3>3
            <4> HIDE DEF Fits
            <4> QED BY <4>1
        <3>4. CASE ids # <<>>
            <4>1. Fits("listed", ids, Unknown)
                BY <3>1, <3>2, <3>4
            <4> HIDE DEF Fits
            <4> QED BY <4>1
        <3> QED BY <3>3, <3>4
    <2>2. CASE ReadHashes(f)
        <3>1. fetch[f].of # "overview" /\ fetch[f].ids \in Seq(Jobs)
            BY <1>0, <2>0, <2>2 DEF ReadHashes, FetchType
        <3>2. CASE Readable(fetch[f].ids)
            <4>1. Rows(fetch[f].ids) \in Seq(Row)
                BY <1>0, <3>1, <3>2, RowsType DEF StoreType
            <4>2. Advance(f, "answered", <<>>, Rows(fetch[f].ids))
                BY <2>2, <3>2 DEF ReadHashes
            <4>3. Fits("answered", <<>>, Rows(fetch[f].ids))
                BY <2>0, <3>1, <4>1, <4>2
            <4> HIDE DEF Fits
            <4> QED BY <4>3
        <3>3. CASE ~Readable(fetch[f].ids)
            <4>1. Fits("failed", <<>>, Unknown)
                BY <2>0, <2>2, <3>3 DEF ReadHashes
            <4> HIDE DEF Fits
            <4> QED BY <4>1
        <3> QED BY <3>2, <3>3
    <2>3. CASE ReadDepths(f)
        <3>1. Total \in Nat
            BY <1>0, TotalType DEF StoreType
        <3>2. Fits("answered", <<>>, Total)
            BY <2>0, <2>3, <3>1 DEF ReadDepths
        <3> HIDE DEF Fits
        <3> QED BY <3>2
    <2>4. CASE Lose(f)
        <3>1. Fits("failed", <<>>, Unknown)
            BY <2>0, <2>4 DEF Lose
        <3> HIDE DEF Fits
        <3> QED BY <3>1
    <2> QED BY <2>1, <2>2, <2>3, <2>4 DEF Serve
<1>1a. PICK stage, ids, reply : Fits(stage, ids, reply)
    BY <1>1
<1>2. fetch' = [fetch EXCEPT ![f] = [@ EXCEPT !.stage = stage, !.ids = ids, !.reply = reply]]
    BY <1>1a DEF Advance
<1>3. FetchType(fetch'[f])
    BY <1>0, <1>1a, <1>2 DEF FetchType, RequestFields, NetType
<1>4. DOMAIN fetch' = Slots /\ \A g \in Slots : FetchType(fetch'[g])
    BY <1>0, <1>2, <1>3 DEF NetType
<1>5. gauge' \in Nat /\ failures' \in 0 .. MaxFailures
    <2>1. gauge' \in {gauge, Total}
        BY DEF Serve, ReadIds, ReadHashes, ReadDepths, Lose
    <2>2. Total \in Nat
        BY <1>0, TotalType DEF StoreType
    <2>3. failures' \in 0 .. MaxFailures
        BY <1>0 DEF DashboardAssumption, NetType, Serve, ReadIds, ReadHashes, ReadDepths, Lose
    <2> QED BY <1>0, <2>1, <2>2, <2>3 DEF NetType
<1>6. UNCHANGED <<storeVars, viewVars>>
    BY DEF Serve, ReadIds, ReadHashes, ReadDepths, Lose
<1> QED BY <1>0, <1>4, <1>5, <1>6 DEF Typed, StoreType, ViewType, NetType, storeVars, viewVars

(* A page takes over what was answered to what it asked. *)
LEMMA PagesTyped ==
    ASSUME DashboardAssumption, Typed, NEW f \in Slots,
           \/ Answer(f)
           \/ \E p \in Pages : Mount(p, f)
           \/ \E t \in Tabs : SelectTab(t, f)
           \/ \E w \in Tabs \cup {"overview"} : Tick(w, f)
    PROVE  Typed'
<1>0. StoreType /\ ViewType /\ NetType /\ FetchType(fetch[f])
    BY DEF Typed, NetType
<1>1. UNCHANGED <<storeVars, gauge, failures>>
    BY DEF Answer, Mount, SelectTab, Tick
<1>2. FetchType(Free) /\ \A what \in Tabs \cup {"overview"} : FetchType(Sent(what))
    BY DEF FetchType, Sent, Free, RequestFields
<1>3. CASE Answer(f)
    <2>1. fetch' = [fetch EXCEPT ![f] = Free]
        BY <1>3 DEF Answer
    <2>2. NetType'
        BY <1>0, <1>1, <1>2, <2>1 DEF NetType
    <2>3. rows' \in Seq(Row) /\ stats' \in Nat \cup {Unknown}
        BY <1>0, <1>3 DEF Answer, FetchType, ViewType, Tabs
    <2>4. UNCHANGED <<page, tab, intervals, clicks>> /\ loading' \in BOOLEAN
        BY <1>3 DEF Answer
    <2> QED BY <1>0, <1>1, <2>2, <2>3, <2>4 DEF Typed, StoreType, ViewType, storeVars
<1>4. ASSUME NEW p \in Pages, Mount(p, f) PROVE Typed'
    <2>1. PICK what \in Tabs \cup {"overview"} : \A g \in Slots :
              \/ fetch'[g] = Sent(what)
              \/ fetch'[g] = [fetch[g] EXCEPT !.live = FALSE]
        BY <1>4 DEF Mount, Tabs
    <2>2. DOMAIN fetch' = Slots
        BY <1>4 DEF Mount
    <2>3. \A g \in Slots : FetchType([fetch[g] EXCEPT !.live = FALSE])
        BY <1>0 DEF NetType, FetchType, RequestFields
    <2>4. NetType'
        BY <1>0, <1>1, <1>2, <2>1, <2>2, <2>3 DEF NetType
    <2>5. /\ page' \in Pages /\ tab' \in Tabs /\ rows' \in Seq(Row)
          /\ stats' \in Nat \cup {Unknown} /\ loading' \in BOOLEAN
          /\ intervals' \subseteq Tabs \cup {"overview"}
        BY <1>4 DEF Mount, Tabs
    <2>6. clicks' \in 0 .. MaxClicks
        BY <1>0, <1>4 DEF Mount, ViewType, DashboardAssumption
    <2> QED BY <1>0, <1>1, <2>4, <2>5, <2>6 DEF Typed, StoreType, ViewType, storeVars
<1>5. ASSUME NEW t \in Tabs, SelectTab(t, f) PROVE Typed'
    <2>1. fetch' = [fetch EXCEPT ![f] = Sent(t)]
        BY <1>5 DEF SelectTab
    <2>2. NetType'
        BY <1>0, <1>1, <1>2, <2>1 DEF NetType
    <2>3. clicks' \in 0 .. MaxClicks
        BY <1>0, <1>5 DEF SelectTab, ViewType, DashboardAssumption
    <2>4. ViewType'
        BY <1>0, <1>5, <2>3 DEF SelectTab, ViewType
    <2> QED BY <1>0, <1>1, <2>2, <2>4 DEF Typed, StoreType, storeVars
<1>6. ASSUME NEW w \in Tabs \cup {"overview"}, Tick(w, f) PROVE Typed'
    <2>1. fetch' = [fetch EXCEPT ![f] = Sent(w)]
        BY <1>6 DEF Tick
    <2>2. NetType'
        BY <1>0, <1>1, <1>2, <2>1 DEF NetType
    <2>3. ViewType'
        BY <1>0, <1>6 DEF Tick, ViewType
    <2> QED BY <1>0, <1>1, <2>2, <2>3 DEF Typed, StoreType, storeVars
<1> QED BY <1>3, <1>4, <1>5, <1>6

LEMMA TypedStep == DashboardAssumption /\ Typed /\ [Next]_vars => Typed'
<1> SUFFICES ASSUME DashboardAssumption, Typed, [Next]_vars PROVE Typed'
    OBVIOUS
<1>1. CASE Next
    BY <1>1, MovesTyped, ServeTyped, PagesTyped DEF Next
<1>2. CASE UNCHANGED vars
    BY <1>2 DEF Typed, StoreType, ViewType, NetType, vars, storeVars, viewVars, netVars
<1> QED BY <1>1, <1>2

(* The pages get what they expect, in any order of answers: a table is     *)
(* only ever given rows whose status it can show, the overview a number    *)
(* (routes.ts 21-31, 87-125, JobsList.tsx 28-40, Dashboard.tsx 23-34).     *)
THEOREM PagesAreTyped == Spec => []TypeOK
<1>1. Init => Typed
    BY InitTyped, DashboardAssumption
<1>2. Typed /\ [Next]_vars => Typed'
    BY TypedStep, DashboardAssumption
<1> QED BY <1>1, <1>2, TypedIsTypeOK, PTL DEF Spec
===============================================================================
