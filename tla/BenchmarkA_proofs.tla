-------------------------- MODULE BenchmarkA_proofs --------------------------
(***************************************************************************)
(* Proofs about Benchmark A, for every list of models (also one that names *)
(* a model twice), every command line, all graphs found on disk and any    *)
(* number of faults.                                                       *)
(***************************************************************************)
EXTENDS BenchmarkA, FiniteSetTheorems, SequenceTheorems, TLAPS

\* What is used of sequences over any set.
LEMMA Sequences ==
    ASSUME NEW T
    PROVE  /\ <<>> \in Seq(T)
           /\ \A x \in T : <<x>> \in Seq(T)
           /\ \A s \in Seq(T), x \in T : Append(s, x) \in Seq(T)
           /\ \A s \in Seq(T) : s # <<>> => Head(s) \in T /\ Tail(s) \in Seq(T)
           /\ \A s \in Seq(T) : \A k \in 1 .. Len(s) : s[k] \in T
<1>1. <<>> \in Seq(T) /\ \A x \in T : <<x>> \in Seq(T)
  OBVIOUS
<1>2. \A s \in Seq(T), x \in T : Append(s, x) \in Seq(T)
  OBVIOUS
<1>3. \A s \in Seq(T) : s # <<>> => Head(s) \in T /\ Tail(s) \in Seq(T)
  BY HeadTailProperties, EmptySeq
<1>4. \A s \in Seq(T) : \A k \in 1 .. Len(s) : s[k] \in T
  OBVIOUS
<1> QED
  BY <1>1, <1>2, <1>3, <1>4

\* The values of the variables.
Variants == [model : ToSet(Models), mode : Modes]

Formats == {"onnx", "engine", "mlpackage", "pt", "studio"}

Graphs == [variant : Variants, fmt : Formats, precision : Precisions]

\* Those next to the .pt have neither mode nor precision.
Names ==
    [variant : [model : ToSet(Models), mode : Modes \cup {""}], fmt : Formats,
     precision : Precisions \cup {""}]

Files == [name : Names, graph : Graphs, whole : BOOLEAN]

LaneNames ==
    {"ult-pt", "ult-onnx", "ult-engine", "ult-coreml", "yv-torch", "yv-numpy",
     "yv-tensorrt", "edgefirst-profiler"}

Rows == [lane : LaneNames, ok : BOOLEAN, on : Graphs \cup {None}]

Running == {"setup", "export", "rename", "lanes", "json"}

Places == {"models", "locate", "variants", "each", "wait", "off"}
             \cup Running \cup Over

Processes ==
    [at : Places, todo : Seq(ToSet(Models)), model : ToSet(Models) \cup {""},
     modes : Seq(Modes), mode : Modes \cup {""},
     building : Graphs \cup {None}, results : Seq(Rows), pycuda : BOOLEAN,
     failed : SUBSET Variants]

\* The types of the state.
TypeOK ==
    /\ args \in ArgsType
    /\ pts \subseteq ToSet(Models)
    /\ disk \subseteq Files
    /\ docs \in Seq([variant : Variants, configs : Seq(Rows)])
    /\ gaveUp \subseteq Variants
    /\ faults \in Nat
    /\ proc \in [Procs -> Processes]

-----------------------------------------------------------------------------
(* The inductive invariant.  What is said of one process is said of its    *)
(* record, so that a step is looked at on the record it changes.           *)

\* In the middle of a model, and of a variant, a process has one that was
\* asked for.
HandOf(r, asked) ==
    /\ r.at \in {"locate", "variants", "each", "wait"} \cup Running =>
          r.model \in ToSet(Models)
    /\ r.at \in {"wait"} \cup Running => Variant(r.model, r.mode) \in asked
    /\ r.at \in {"each", "wait"} \cup Running =>
          \A md \in ToSet(r.modes) : Variant(r.model, md) \in asked
    /\ r.at \in {"export", "rename"} => r.building \in Graphs

InHand(p) == HandOf(proc[p], Requested)

\* The precision tag in a file name.
TagOf(x) == IF x = "int8-fp16-fallback" THEN "int8" ELSE x

Tag == TagOf(args.precision)

\* A row of a report of v.
OwnRow(row, lane, v, tag) ==
    /\ row.lane = lane
    /\ row.ok => /\ row.on.variant = v
                 /\ row.on.fmt = FormatOf(row.lane)
                 /\ row.on.fmt = "engine" =>
                       TagOf(row.on.precision) = tag

\* The rows so far are those of the first lanes, each on its own graph.
RowsOf(r, lanes, tag) ==
    /\ r.at = "setup" => r.results = <<>>
    /\ r.at \in {"export", "rename", "lanes", "json"} =>
          /\ Len(r.results) <= Len(lanes)
          /\ \A k \in 1 .. Len(r.results) :
                OwnRow(r.results[k], lanes[k], Variant(r.model, r.mode), tag)
    /\ r.at \in {"export", "rename"} /\ r.building.fmt = "mlpackage" =>
          Len(r.results) < Len(lanes)
    /\ r.at = "json" => Len(r.results) = Len(lanes)

\* The exit code says whether a variant failed.
ExitOf(r) ==
    /\ r.at \in {"exit0", "exit1"} => r.todo = <<>>
    /\ r.at = "exit0" => r.failed = {}
    /\ r.at = "exit1" => r.failed # {}

\* With the pycuda context made, nothing that uses PyTorch is ahead.
CleanOf(r, lanes) ==
    r.pycuda =>
        /\ r.at \in {"lanes", "json", "each", "models"} \cup Over
        /\ r.todo = <<>> /\ r.modes = <<>>
        /\ \A k \in (Len(r.results) + 1) .. Len(lanes) : lanes[k] \notin OnPyTorch

\* A worker goes over one model, and of it one variant.
SingleOf(r) ==
    /\ \/ r.todo = <<>> \/ r.at = "killed"
       \/ r.at = "models" /\ Len(r.todo) = 1 /\ ~r.pycuda
    /\ r.at = "each" => Len(r.modes) <= 1
    /\ r.at \in Running => r.modes = <<>>

\* The variants a process has not come to, and the one it is at.
AheadOf(r) ==
    {v \in Variants :
        \/ v.model \in ToSet(r.todo)
        \/ r.at \in {"locate", "variants"} /\ v.model = r.model
        \/ /\ r.at \in {"each", "wait"} \cup Running
           /\ v.model = r.model /\ v.mode \in ToSet(r.modes)
        \/ r.at \in {"wait"} \cup Running /\ v = Variant(r.model, r.mode)}

\* What a process has to account for.
Owed(p) ==
    IF p = "main" THEN Requested
    ELSE IF proc["main"].at = "wait" THEN {Current("main")} ELSE {}

\* Nothing it owes is lost, unless it is over before its time.
Settles(p) ==
    \/ proc[p].at \in {"crashed", "killed", "off"}
    \/ Owed(p) \subseteq Done \cup proc[p].failed \cup gaveUp \cup AheadOf(proc[p])

\* main leaves every variant to a worker.
Isolating == args.device = "tensorrt" /\ ~args.noIsolate /\ args.only = "any"

\* There is a worker exactly while main waits for it.
Roles ==
    /\ proc["main"].at # "off" /\ proc["worker"].at # "wait"
    /\ IF proc["main"].at = "wait"
       THEN Isolating /\ proc["worker"].at # "off"
       ELSE proc["worker"] = Off
    /\ Isolating => proc["main"].at \notin Running
    /\ Isolated => ~proc["main"].pycuda

\* The worker is known to have failed, or will be.
Trouble ==
    proc["worker"].failed # {} \/ proc["worker"].at \in {"crashed", "killed"}

\* The models passed over, as a whole or in one mode.
Passed == {v.model : v \in gaveUp}

\* Under isolation each failed variant of main, and each model passed over,
\* has cost a fault of its own.
FaultsPaid ==
    Isolated =>
        /\ IsFiniteSet(proc["main"].failed) /\ IsFiniteSet(Passed)
        /\ Cardinality(proc["main"].failed) + Cardinality(Passed)
              + (IF Trouble THEN 1 ELSE 0) <= faults

\* A complete graph is under the name of what asked for it, or where exports
\* are written to.
DiskInv ==
    \A f \in disk :
        \/ f.name = NameOf(f.graph) /\ f.whole
        \/ f.name = ScratchOf(f.graph)

\* What an export that returned has written is there for it to rename.
StagedInv ==
    \A p \in Procs : proc[p].at = "rename" =>
        \A f \in disk : f.name = ScratchOf(proc[p].building) =>
            f.graph = proc[p].building /\ f.whole

\* The reports written are those of variants asked for, lane by lane.
DocsInv ==
    \A k \in 1 .. Len(docs) :
        /\ docs[k].variant \in Requested
        /\ Len(docs[k].configs) = Len(Lanes)
        /\ \A j \in 1 .. Len(Lanes) :
              OwnRow(docs[k].configs[j], Lanes[j], docs[k].variant, Tag)

\* All that is said of one process.
ProcInv(p) ==
    /\ HandOf(proc[p], Requested) /\ RowsOf(proc[p], Lanes, Tag)
    /\ ExitOf(proc[p])
    /\ Isolated => CleanOf(proc[p], Lanes)
    /\ p = "worker" => SingleOf(proc[p])
    /\ Settles(p)

\* The inductive invariant.
Inv ==
    /\ TypeOK
    /\ Roles
    /\ \A p \in Procs : ProcInv(p)
    /\ gaveUp \subseteq Requested
    /\ proc["main"].failed \subseteq Requested
    /\ FaultsPaid
    /\ DiskInv
    /\ StagedInv
    /\ DocsInv

-----------------------------------------------------------------------------
(* Types.                                                                  *)

\* The elements of a sequence are its first and those that follow.
LEMMA HeadOrTail ==
    ASSUME NEW T, NEW q \in Seq(T), q # <<>>
    PROVE  ToSet(q) = {Head(q)} \cup ToSet(Tail(q))
<1>1. /\ Len(q) \in Nat \ {0} /\ Head(q) = q[1] /\ Tail(q) \in Seq(T)
      /\ Len(Tail(q)) = Len(q) - 1
      /\ \A i \in 1 .. Len(Tail(q)) : Tail(q)[i] = q[i + 1]
  BY HeadTailProperties, EmptySeq
<1>2. DOMAIN q = 1 .. Len(q) /\ DOMAIN Tail(q) = 1 .. Len(Tail(q))
  BY <1>1
<1>3. ASSUME NEW i \in 1 .. Len(q) PROVE q[i] \in {Head(q)} \cup ToSet(Tail(q))
  <2>1. CASE i = 1
    BY <1>1, <2>1
  <2>2. CASE i # 1
    <3>1. i - 1 \in 1 .. Len(Tail(q)) /\ (i - 1) + 1 = i
      BY <1>1, <2>2
    <3>2. Tail(q)[i - 1] = q[i]
      BY <1>1, <3>1
    <3> QED
      BY <1>2, <3>1, <3>2 DEF ToSet
  <2> QED
    BY <2>1, <2>2
<1>4. ASSUME NEW i \in 1 .. Len(Tail(q)) PROVE Tail(q)[i] \in ToSet(q)
  <2>1. i + 1 \in 1 .. Len(q)
    BY <1>1
  <2> QED
    BY <1>1, <1>2, <2>1 DEF ToSet
<1>5. 1 \in 1 .. Len(q)
  BY <1>1
<1> QED
  BY <1>1, <1>2, <1>3, <1>4, <1>5 DEF ToSet

\* Nothing follows the only element.
LEMMA TailOfOne ==
    ASSUME NEW T, NEW q \in Seq(T), Len(q) <= 1, q # <<>>
    PROVE  Tail(q) = <<>>
<1>1. Len(q) # 0 /\ Len(q) \in Nat
  BY EmptySeq
<1>2. Tail(q) \in Seq(T) /\ Len(Tail(q)) = Len(q) - 1
  BY HeadTailProperties
<1>3. Len(Tail(q)) = 0
  BY <1>1, <1>2
<1> QED
  BY <1>2, <1>3, EmptySeq

\* The lanes are known by name.
LEMMA LanesType == args \in ArgsType => Lanes \in Seq(LaneNames)
<1> SUFFICES ASSUME args \in ArgsType PROVE Lanes \in Seq(LaneNames)
  OBVIOUS
<1>1. \A c, l : l \in LaneNames => When(c, l) \in Seq(LaneNames)
  BY DEF When
<1>2. {"ult-pt", "ult-onnx", "ult-engine", "ult-coreml", "yv-torch", "yv-numpy",
       "yv-tensorrt", "edgefirst-profiler"} \subseteq LaneNames
  BY DEF LaneNames
<1>3. \A s, t \in Seq(LaneNames) : s \o t \in Seq(LaneNames)
  OBVIOUS
<1>4. (CASE args.device = "tensorrt" ->
             When(~args.skipUltPt, "ult-pt") \o <<"ult-engine">>
                 \o When(~args.skipYv, "yv-tensorrt")
       [] args.device = "coreml" ->
             <<"ult-onnx", "ult-coreml", "yv-torch", "yv-numpy">>
       [] OTHER ->
             When(~args.skipUltPt, "ult-pt")
                 \o <<"ult-onnx", "yv-torch", "yv-numpy">>) \in Seq(LaneNames)
  <2>1. /\ <<"ult-engine">> \in Seq(LaneNames)
        /\ <<"ult-onnx", "ult-coreml", "yv-torch", "yv-numpy">> \in Seq(LaneNames)
        /\ <<"ult-onnx", "yv-torch", "yv-numpy">> \in Seq(LaneNames)
    BY <1>2
  <2>2. /\ When(~args.skipUltPt, "ult-pt") \in Seq(LaneNames)
        /\ When(~args.skipYv, "yv-tensorrt") \in Seq(LaneNames)
    BY <1>1, <1>2
  <2> QED
    BY <2>1, <2>2, <1>3
<1>5. When(args.session, "edgefirst-profiler") \in Seq(LaneNames)
  BY <1>1, <1>2
<1> QED
  BY <1>3, <1>4, <1>5 DEF Lanes

\* A sequence over S followed by two over T.
LEMMA FrontAndRest ==
    ASSUME NEW S, NEW T, NEW s \in Seq(S), NEW t \in Seq(T), NEW u \in Seq(T)
    PROVE  LET q == (s \o t) \o u
           IN  /\ \A i \in 1 .. Len(q) : i <= Len(s) => q[i] \in S
               /\ \A i \in 1 .. Len(q) : i > Len(s) => q[i] \in T
<1> DEFINE q == (s \o t) \o u
<1>0. Len(s) \in Nat /\ Len(t) \in Nat /\ Len(u) \in Nat
  OBVIOUS
<1>1. /\ Len(s \o t) = Len(s) + Len(t)
      /\ \A i \in 1 .. Len(s) + Len(t) :
            (s \o t)[i] = IF i <= Len(s) THEN s[i] ELSE t[i - Len(s)]
  OBVIOUS
<1>2. s \o t \in Seq(S \cup T) /\ u \in Seq(S \cup T)
  OBVIOUS
<1>3. /\ Len(q) = Len(s \o t) + Len(u)
      /\ \A i \in 1 .. Len(s \o t) + Len(u) :
            q[i] = IF i <= Len(s \o t) THEN (s \o t)[i] ELSE u[i - Len(s \o t)]
  BY <1>2
<1>4. /\ \A i \in 1 .. Len(s) : s[i] \in S
      /\ \A i \in 1 .. Len(t) : t[i] \in T
      /\ \A i \in 1 .. Len(u) : u[i] \in T
  OBVIOUS
<1> HIDE DEF q
<1>5. ASSUME NEW i \in 1 .. Len(q), i <= Len(s) PROVE q[i] \in S
  BY <1>0, <1>1, <1>3, <1>4, <1>5
<1>6. ASSUME NEW i \in 1 .. Len(q), i > Len(s) PROVE q[i] \in T
  <2>1. CASE i <= Len(s) + Len(t)
    <3>1. q[i] = t[i - Len(s)] /\ i - Len(s) \in 1 .. Len(t)
      BY <1>0, <1>1, <1>3, <1>6, <2>1
    <3> QED
      BY <1>4, <3>1
  <2>2. CASE i > Len(s) + Len(t)
    <3>1. q[i] = u[i - Len(s \o t)] /\ i - Len(s \o t) \in 1 .. Len(u)
      BY <1>0, <1>1, <1>3, <1>6, <2>2
    <3> QED
      BY <1>4, <3>1
  <2> QED
    BY <1>0, <2>1, <2>2
<1> QED
  BY <1>5, <1>6 DEF q

\* No lane of PyTorch comes after that of pycuda, which only TensorRT has.
LEMMA LanesOrder ==
    ASSUME NEW i \in 1 .. Len(Lanes), Lanes[i] = "yv-tensorrt"
    PROVE  /\ args.device = "tensorrt"
           /\ \A k \in (i + 1) .. Len(Lanes) : Lanes[k] \notin OnPyTorch
<1> DEFINE First == LaneNames \ {"yv-tensorrt"}
           Rest == LaneNames \ OnPyTorch
<1>1. \A c, l, T : l \in T => When(c, l) \in Seq(T)
  BY DEF When
<1>2. /\ {"ult-pt", "ult-onnx", "ult-engine", "ult-coreml", "yv-torch", "yv-numpy",
          "edgefirst-profiler"} \subseteq First
      /\ {"yv-tensorrt", "edgefirst-profiler"} \subseteq Rest
      /\ "yv-tensorrt" \notin First
      /\ \A l \in Rest : l \notin OnPyTorch
  BY DEF LaneNames, OnPyTorch
<1> HIDE DEF First, Rest
<1>3. CASE args.device = "tensorrt"
  <2> DEFINE s == When(~args.skipUltPt, "ult-pt") \o <<"ult-engine">>
             t == When(~args.skipYv, "yv-tensorrt")
             u == When(args.session, "edgefirst-profiler")
  <2>1. Lanes = (s \o t) \o u
    BY <1>3 DEF Lanes
  <2>2. When(~args.skipUltPt, "ult-pt") \in Seq(First) /\ <<"ult-engine">> \in Seq(First)
    BY <1>1, <1>2
  <2>3. s \in Seq(First)
    BY <2>2
  <2>4. t \in Seq(Rest) /\ u \in Seq(Rest)
    BY <1>1, <1>2
  <2> HIDE DEF s, t, u
  <2>5. /\ \A k \in 1 .. Len(Lanes) : k <= Len(s) => Lanes[k] \in First
        /\ \A k \in 1 .. Len(Lanes) : k > Len(s) => Lanes[k] \in Rest
    BY <2>1, <2>3, <2>4, FrontAndRest
  <2>6. Len(s) \in Nat /\ i > Len(s) /\ Len(Lanes) \in Nat
    <3>1. Len(s) \in Nat /\ Lanes \in Seq(First \cup Rest)
      BY <2>1, <2>3, <2>4
    <3>2. ~(i <= Len(s))
      BY <1>2, <2>5
    <3> QED
      BY <3>1, <3>2
  <2>7. ASSUME NEW k \in (i + 1) .. Len(Lanes) PROVE Lanes[k] \notin OnPyTorch
    <3>1. k \in 1 .. Len(Lanes) /\ k > Len(s)
      BY <2>6
    <3> QED
      BY <1>2, <2>5, <3>1
  <2> QED
    BY <1>3, <2>7
<1>4. CASE args.device # "tensorrt"
  <2>1. \A a, b \in Seq(First) : a \o b \in Seq(First)
    OBVIOUS
  <2>2. /\ When(~args.skipUltPt, "ult-pt") \in Seq(First)
        /\ When(args.session, "edgefirst-profiler") \in Seq(First)
        /\ <<"ult-onnx", "ult-coreml", "yv-torch", "yv-numpy">> \in Seq(First)
        /\ <<"ult-onnx", "yv-torch", "yv-numpy">> \in Seq(First)
    BY <1>1, <1>2
  <2>3. Lanes \in Seq(First)
    <3>1. \/ Lanes = <<"ult-onnx", "ult-coreml", "yv-torch", "yv-numpy">>
                        \o When(args.session, "edgefirst-profiler")
          \/ Lanes = (When(~args.skipUltPt, "ult-pt") \o <<"ult-onnx", "yv-torch", "yv-numpy">>)
                        \o When(args.session, "edgefirst-profiler")
      BY <1>4 DEF Lanes
    <3>2. When(~args.skipUltPt, "ult-pt") \o <<"ult-onnx", "yv-torch", "yv-numpy">>
             \in Seq(First)
      BY <2>1, <2>2, Zenon
    <3> QED
      BY <2>1, <2>2, <3>1, <3>2, Zenon
  <2>4. Lanes[i] \in First
    BY <2>3
  <2> QED
    BY <1>2, <2>4
<1> QED
  BY <1>3, <1>4

\* What of the command line is used below.
LEMMA ArgsFields ==
    ASSUME args \in ArgsType
    PROVE  /\ args.device \in Devices /\ args.precision \in Precisions
           /\ args.noIsolate \in BOOLEAN /\ args.only \in Modes \cup {"any"}
  BY DEF ArgsType

\* A variant asks for a graph.
LEMMA GraphOfType ==
    ASSUME NEW a \in ArgsType, NEW v \in Variants, NEW fmt \in Formats
    PROVE  GraphOf(a, v, fmt) \in Graphs
<1>1. a.precision \in Precisions
  BY DEF ArgsType
<1> QED
  BY <1>1 DEF GraphOf, Graphs, Precisions

\* What is asked for are variants of the models.
LEMMA RequestedType == Requested \subseteq Variants
  BY DEF Requested, Variants

\* A name is that of a graph; what is exported is written elsewhere.
LEMMA NameType ==
    ASSUME NEW g \in Graphs
    PROVE  /\ NameOf(g) \in Graphs /\ NameOf(g) \in Names /\ ScratchOf(g) \in Names
           /\ NameOf(g).variant.mode # "" /\ ScratchOf(g).variant.mode = ""
<1>1. NameOf(g) \in Graphs
  BY DEF NameOf, Graphs, Precisions
<1>2. \A h \in Graphs : h \in Names /\ h.variant.mode # ""
  BY DEF Graphs, Names, Variants, Modes
<1>3. ScratchOf(g) \in Names /\ ScratchOf(g).variant.mode = ""
  BY DEF ScratchOf, Variant, Graphs, Variants, Names
<1> QED
  BY <1>1, <1>2, <1>3

\* What an export needs is a graph of the variant.
LEMMA ToExportType ==
    ASSUME TypeOK, NEW p \in Procs, Current(p) \in Requested
    PROVE  /\ ToExport(p) \in Graphs
           /\ proc[p].at = "setup" => ToExport(p).fmt # "mlpackage"
<1>1. Wanted(p) \in Graphs
  BY RequestedType, GraphOfType DEF Wanted, MainFormat, Formats, TypeOK
<1>2. FormatOf(NextLane(p)) \in Formats
  BY DEF FormatOf, Formats
<1>3. LaneGraph(p) \in Graphs
  BY <1>2, RequestedType, GraphOfType DEF LaneGraph, TypeOK
<1>4. Wanted(p).fmt # "mlpackage"
  BY DEF Wanted, GraphOf, MainFormat
<1> QED
  BY <1>1, <1>3, <1>4 DEF ToExport

\* Files written or moved are files.
LEMMA FilesType ==
    ASSUME TypeOK, NEW g \in Graphs
    PROVE  /\ \A w \in BOOLEAN : Written(ScratchOf(g), g, w) \subseteq Files
           /\ \A f \in disk : [f EXCEPT !.name = NameOf(g)] \in Files
<1>1. \A w \in BOOLEAN :
         [name |-> ScratchOf(g), graph |-> g, whole |-> w] \in Files
  BY NameType DEF Files
<1>2. disk \subseteq Files
  BY DEF TypeOK
<1>3. \A f \in Files : [f EXCEPT !.name = NameOf(g)] \in Files
  BY NameType DEF Files
<1> QED
  BY <1>1, <1>2, <1>3 DEF Written

\* A process about to loop over models, and one that is not there.
LEMMA FreshType ==
    ASSUME NEW ms \in Seq(ToSet(Models))
    PROVE  Fresh(ms) \in Processes
<1>1. <<>> \in Seq(Modes) /\ <<>> \in Seq(Rows)
  BY Sequences, Zenon
<1> QED
  BY <1>1 DEF Fresh, Processes, Places

\* Nothing runs in an absent process.
LEMMA OffType == Off \in Processes
<1>1. Fresh(<<>>) \in Processes
  BY FreshType, Sequences
<1> QED
  BY <1>1 DEF Off, Processes, Places

\* A fresh interpreter has done nothing.
LEMMA FreshFields ==
    ASSUME NEW ms
    PROVE  /\ Fresh(ms).at = "models" /\ Fresh(ms).todo = ms
           /\ Fresh(ms).modes = <<>> /\ Fresh(ms).results = <<>>
           /\ Fresh(ms).pycuda = FALSE /\ Fresh(ms).failed = {}
  BY DEF Fresh

\* An absent process has done nothing.
LEMMA OffAt ==
    /\ Off.at = "off" /\ Off.pycuda = FALSE /\ Off.todo = <<>>
    /\ Off.failed = {} /\ Off.modes = <<>> /\ Off.results = <<>>
  BY DEF Off, Fresh

\* A command begins in a state of its type.
LEMMA InitType == Init => TypeOK /\ \A p \in Procs : InHand(p)
<1> SUFFICES ASSUME Init PROVE TypeOK /\ \A p \in Procs : InHand(p)
  OBVIOUS
<1>1. /\ args \in ArgsType /\ pts \subseteq ToSet(Models) /\ docs = <<>>
      /\ gaveUp = {} /\ faults = 0
      /\ proc = [main |-> Fresh(Models), worker |-> Off]
  BY DEF Init
<1>2. Models \in Seq(ToSet(Models))
  BY ModelsAssumption
<1>3. Fresh(Models) \in Processes
  BY <1>2, FreshType
<1>4. Off \in Processes
  BY OffType
<1>5. disk \subseteq Files
  <2>1. PICK q \in Precisions, vs \in SUBSET Requested :
           LET a == [args EXCEPT !.precision = q]
           IN  a \in ArgsType
               /\ disk = {File(GraphOf(a, v, MainFormat)) : v \in vs}
    BY DEF Init
  <2> DEFINE a == [args EXCEPT !.precision = q]
  <2>2. \A v \in Variants : GraphOf(a, v, MainFormat) \in Graphs
    BY <2>1, GraphOfType DEF MainFormat, Formats
  <2>3. \A g \in Graphs : File(g) \in Files
    BY NameType DEF File, Files
  <2> QED
    BY <2>1, <2>2, <2>3, RequestedType
<1>6. proc \in [Procs -> Processes]
  BY <1>1, <1>3, <1>4 DEF Procs
<1>7. \A p \in Procs : proc[p].at \in {"models", "off"}
  <2>1. proc["main"] = Fresh(Models) /\ proc["worker"] = Off
    BY <1>1
  <2>2. Fresh(Models).at = "models"
    BY DEF Fresh
  <2>3. Off.at = "off"
    BY DEF Fresh, Off
  <2> QED
    BY <2>1, <2>2, <2>3 DEF Procs
<1> QED
  BY <1>1, <1>5, <1>6, <1>7 DEF TypeOK, InHand, HandOf, Running

\* The fields of a process.
LEMMA ProcFields ==
    ASSUME TypeOK, NEW p \in Procs
    PROVE  /\ proc[p] \in Processes
           /\ proc[p].at \in Places /\ proc[p].todo \in Seq(ToSet(Models))
           /\ proc[p].model \in ToSet(Models) \cup {""}
           /\ proc[p].modes \in Seq(Modes) /\ proc[p].mode \in Modes \cup {""}
           /\ proc[p].building \in Graphs \cup {None}
           /\ proc[p].results \in Seq(Rows) /\ proc[p].pycuda \in BOOLEAN
           /\ proc[p].failed \in SUBSET Variants
           /\ OnlyMode(p) \in Modes \cup {"", "any"}
<1>1. \A q \in Procs : proc[q] \in Processes
  BY DEF TypeOK
<1>2. proc["main"].mode \in Modes \cup {""}
  BY <1>1 DEF Procs, Processes
<1>3. OnlyMode(p) \in Modes \cup {"", "any"}
  BY <1>2, ArgsFields DEF OnlyMode, TypeOK
<1>4. proc[p] \in Processes
  BY <1>1
<1> QED
  BY <1>3, <1>4 DEF Processes

\* What the loop over variants takes of a model.
LEMMA ChosenType ==
    ASSUME NEW m, NEW only
    PROVE  /\ Chosen(ModesOf(m), only) \in Seq(Modes)
           /\ \A k \in 1 .. Len(Chosen(ModesOf(m), only)) :
                 LET md == Chosen(ModesOf(m), only)[k]
                 IN  md \in ToSet(ModesOf(m)) /\ only \in {"any", md}
           /\ only # "any" => Len(Chosen(ModesOf(m), only)) <= 1
           /\ \A md \in ToSet(ModesOf(m)) :
                 only \in {"any", md} => md \in ToSet(Chosen(ModesOf(m), only))
<1> DEFINE ms == ModesOf(m)
<1>1. ms \in Seq(Modes)
  <2>1. <<"classic", "nmsfree">> \in Seq(Modes) /\ <<"classic">> \in Seq(Modes)
    BY DEF Modes
  <2> QED
    BY <2>1 DEF ModesOf
<1>2. ToSet(ms) \subseteq Modes /\ \A k \in 1 .. Len(ms) : ms[k] \in ToSet(ms)
  BY <1>1 DEF ToSet
<1>3. ToSet(<<only>>) = {only} /\ Len(<<only>>) = 1 /\ <<only>>[1] = only
  BY DEF ToSet
<1> HIDE DEF ms
<1>4. CASE only = "any"
  BY <1>1, <1>2, <1>4 DEF Chosen, ms
<1>5. CASE only # "any" /\ only \in ToSet(ms)
  <2>1. Chosen(ms, only) = <<only>>
    BY <1>5 DEF Chosen
  <2>2. <<only>> \in Seq(Modes)
    BY <1>5, <1>2
  <2> QED
    BY <1>5, <2>1, <2>2, <1>3 DEF ms
<1>6. CASE only # "any" /\ only \notin ToSet(ms)
  <2>1. Chosen(ms, only) = <<>>
    BY <1>6 DEF Chosen
  <2> QED
    BY <1>6, <2>1 DEF ms
<1> QED
  BY <1>4, <1>5, <1>6

\* The process p moves to r and the other stays.
LEMMA OneMoves ==
    ASSUME TypeOK, NEW p \in Procs, NEW r \in Processes,
           proc' = [proc EXCEPT ![p] = r]
    PROVE  /\ proc' \in [Procs -> Processes]
           /\ proc'[p] = r
           /\ \A q \in Procs \ {p} : proc'[q] = proc[q]
  BY DEF TypeOK

\* A fault is counted.
LEMMA FaultStep ==
    ASSUME TypeOK, Fault
    PROVE  faults' \in Nat /\ faults' = faults + 1
<1>1. faults \in Nat
  BY DEF TypeOK
<1> QED
  BY <1>1 DEF Fault

\* While rows are missing there is a lane to run.
LEMMA NextLaneType ==
    ASSUME TypeOK, NEW p \in Procs, Len(proc[p].results) < Len(Lanes)
    PROVE  /\ Len(proc[p].results) + 1 \in 1 .. Len(Lanes)
           /\ NextLane(p) \in LaneNames
<1>1. Lanes \in Seq(LaneNames) /\ Len(Lanes) \in Nat
  BY LanesType DEF TypeOK
<1>2. Len(proc[p].results) \in Nat
  <2>1. proc[p].results \in Seq(Rows)
    BY ProcFields
  <2> QED
    BY <2>1
<1>3. Len(proc[p].results) + 1 \in 1 .. Len(Lanes)
  BY <1>1, <1>2
<1> QED
  BY <1>1, <1>3, Sequences, Zenon DEF NextLane

\* Both move.
LEMMA TwoProcesses ==
    ASSUME NEW m \in Processes, NEW w \in Processes,
           proc' = [main |-> m, worker |-> w]
    PROVE  /\ proc' \in [Procs -> Processes]
           /\ proc'["main"] = m /\ proc'["worker"] = w
  BY DEF Procs

\* A step of a process keeps the types.
LEMMA WorkType ==
    ASSUME TypeOK, NEW p \in Procs, InHand(p), RowsOf(proc[p], Lanes, Tag), Work(p)
    PROVE  TypeOK'
<1>0. /\ proc[p] \in Processes
      /\ proc[p].at \in Places /\ proc[p].todo \in Seq(ToSet(Models))
      /\ proc[p].model \in ToSet(Models) \cup {""}
      /\ proc[p].modes \in Seq(Modes) /\ proc[p].mode \in Modes \cup {""}
      /\ proc[p].building \in Graphs \cup {None}
      /\ proc[p].results \in Seq(Rows) /\ proc[p].pycuda \in BOOLEAN
      /\ proc[p].failed \in SUBSET Variants
      /\ OnlyMode(p) \in Modes \cup {"", "any"}
  BY ProcFields
<1> USE <1>0
<1>1. CASE NextModel(p)
  <2>1. proc[p].todo # <<>>
    BY <1>1 DEF NextModel
  <2>2. Head(proc[p].todo) \in ToSet(Models) /\ Tail(proc[p].todo) \in Seq(ToSet(Models))
    BY <2>1, Sequences, Zenon
  <2> QED
    BY <1>1, <2>2 DEF NextModel, TypeOK, Processes, Places
<1>2. CASE Locate(p)
  <2>1. proc[p].model \in ToSet(Models)
    BY <1>2 DEF Locate, InHand, HandOf
  <2> QED
    BY <1>2, <2>1 DEF Locate, TypeOK, Processes, Places
<1>3. CASE NotFound(p) \/ VariantsFail(p)
  <2>0. Fault /\ UNCHANGED <<args, pts, disk, docs>>
    BY <1>3 DEF NotFound, VariantsFail
  <2>1. faults' \in Nat /\ UNCHANGED <<args, pts, disk, docs>>
    BY <2>0, FaultStep
  <2>2. gaveUp' \subseteq Variants
    BY <1>3, RequestedType, Zenon DEF NotFound, VariantsFail, PassOver, TypeOK
  <2>3. PICK place \in {"models", "crashed"} : proc' = [proc EXCEPT ![p].at = place]
    BY <1>3 DEF NotFound, VariantsFail, PassOver
  <2>4. proc' \in [Procs -> Processes]
    BY <2>3 DEF TypeOK, Processes, Places, Over
  <2> QED
    BY <2>1, <2>2, <2>4 DEF TypeOK
<1>4. CASE GetVariants(p)
  <2> DEFINE ms == Chosen(ModesOf(proc[p].model), OnlyMode(p))
  <2>1. ms \in Seq(Modes)
    BY ChosenType
  <2>2. proc' = [proc EXCEPT ![p].at = "each", ![p].modes = ms]
    BY <1>4 DEF GetVariants
  <2> HIDE DEF ms
  <2> DEFINE r == [proc[p] EXCEPT !.at = "each", !.modes = ms]
  <2>3. r \in Processes
    BY <2>1 DEF Processes, Places
  <2>4. proc' = [proc EXCEPT ![p] = r]
    BY <2>2 DEF TypeOK
  <2> HIDE DEF r
  <2>5. proc' \in [Procs -> Processes]
    BY <2>3, <2>4, OneMoves
  <2> QED
    BY <1>4, <2>5 DEF GetVariants, TypeOK
<1>5. CASE Finish(p) \/ LastVariant(p) \/ SkipExport(p) \/ WriteTable(p)
  <2>1. PICK place \in Places : proc' = [proc EXCEPT ![p].at = place]
    BY <1>5 DEF Finish, LastVariant, SkipExport, WriteTable, Places, Over, Running
  <2>2. proc' \in [Procs -> Processes]
    BY <2>1 DEF TypeOK, Processes
  <2> QED
    BY <1>5, <2>2 DEF Finish, LastVariant, SkipExport, WriteTable, TypeOK
<1>6. CASE NextVariant(p)
  <2> DEFINE me == [proc[p] EXCEPT !.mode = Head(proc[p].modes),
                                   !.modes = Tail(@), !.results = <<>>]
  <2>1. proc[p].model \in ToSet(Models) /\ proc[p].modes # <<>>
    BY <1>6 DEF NextVariant, InHand, HandOf
  <2>2. me \in Processes
    <3>2. Head(proc[p].modes) \in Modes /\ Tail(proc[p].modes) \in Seq(Modes)
      BY <2>1, Sequences, Zenon
    <3>3. <<>> \in Seq(Rows)
      BY Sequences, Zenon
    <3> QED
      BY <3>2, <3>3 DEF Processes
  <2>3. me.model \in ToSet(Models)
    <3>1. me.model = proc[p].model
      BY DEF Processes
    <3> QED
      BY <2>1, <3>1
  <2>4. <<me.model>> \in Seq(ToSet(Models))
    BY <2>3, Sequences, Zenon
  <2>5. Fresh(<<me.model>>) \in Processes
    BY <2>4, FreshType
  <2> HIDE DEF me
  <2>6. [me EXCEPT !.at = "wait"] \in Processes /\ [me EXCEPT !.at = "setup"] \in Processes
    BY <2>2 DEF Processes, Places, Running
  <2>7. proc' \in [Procs -> Processes]
    <3>1. \/ proc' = [main |-> [me EXCEPT !.at = "wait"], worker |-> Fresh(<<me.model>>)]
          \/ proc' = [proc EXCEPT ![p] = [me EXCEPT !.at = "setup"]]
      BY <1>6 DEF NextVariant, me
    <3>2. CASE proc' = [proc EXCEPT ![p] = [me EXCEPT !.at = "setup"]]
      BY <3>2, <2>6 DEF TypeOK
    <3>3. CASE proc' = [main |-> [me EXCEPT !.at = "wait"], worker |-> Fresh(<<me.model>>)]
      BY <3>3, <2>5, <2>6, TwoProcesses
    <3> QED
      BY <3>1, <3>2, <3>3
  <2> QED
    BY <1>6, <2>7 DEF NextVariant, TypeOK
<1>7. CASE Export(p)
  <2>1. Current(p) \in Requested
    BY <1>7 DEF Export, LaneExports, InHand, HandOf, Running, Current
  <2>2. ToExport(p) \in Graphs
    BY <2>1, ToExportType
  <2>3. disk' \subseteq Files
    BY <1>7, <2>2, FilesType DEF Export
  <2>4. proc' \in [Procs -> Processes]
    BY <1>7, <2>2 DEF Export, TypeOK, Processes, Places, Running
  <2> QED
    BY <1>7, <2>3, <2>4 DEF Export, TypeOK
<1>13. CASE ExportEnds(p)
  <2>1. proc[p].building \in Graphs
    BY <1>13 DEF ExportEnds, InHand, HandOf
  <2>2. disk' \subseteq Files
    BY <1>13, <2>1, FilesType DEF ExportEnds
  <2>3. proc' \in [Procs -> Processes]
    BY <1>13 DEF ExportEnds, TypeOK, Processes, Places, Running
  <2> QED
    BY <1>13, <2>2, <2>3 DEF ExportEnds, TypeOK
<1>8. CASE Rename(p)
  <2>1. proc[p].building \in Graphs
    BY <1>8 DEF Rename, InHand, HandOf
  <2>2. disk' \subseteq Files
    BY <1>8, <2>1, FilesType DEF Rename, TypeOK
  <2>3. proc' \in [Procs -> Processes]
    BY <1>8 DEF Rename, TypeOK, Processes, Places, Running
  <2> QED
    BY <1>8, <2>2, <2>3 DEF Rename, TypeOK
<1>9. CASE LaneRuns(p)
  <2>1. Len(proc[p].results) < Len(Lanes) /\ Current(p) \in Requested
    BY <1>9 DEF LaneRuns, InHand, HandOf, Running, Current
  <2>2. NextLane(p) \in LaneNames
    BY <2>1, NextLaneType
  <2>3. LaneGraph(p) \in Graphs
    <3>1. FormatOf(NextLane(p)) \in Formats
      BY DEF FormatOf, Formats
    <3> QED
      BY <2>1, <3>1, RequestedType, GraphOfType DEF LaneGraph, TypeOK
  <2>4. LaneLoads(p) \in Graphs
    <3>1. Cached(LaneGraph(p)) => Loaded(LaneGraph(p)) \in Graphs
      BY DEF Cached, Loaded, TypeOK, Files
    <3> QED
      BY <2>3, <3>1 DEF LaneLoads
  <2> DEFINE row == [lane |-> NextLane(p), ok |-> TRUE, on |-> LaneLoads(p)]
             yv == NextLane(p) = "yv-tensorrt"
  <2>5. Append(proc[p].results, row) \in Seq(Rows)
    <3>1. row \in Rows
      BY <2>2, <2>4 DEF Rows
    <3> QED
      BY <3>1, Sequences, Zenon
  <2>6. proc' = [proc EXCEPT ![p].results = Append(proc[p].results, row),
                             ![p].pycuda = proc[p].pycuda \/ yv]
    BY <1>9 DEF LaneRuns, TypeOK
  <2> HIDE DEF row, yv
  <2>8. proc' \in [Procs -> Processes]
    BY <2>5, <2>6 DEF TypeOK, Processes
  <2> QED
    BY <1>9, <2>8 DEF LaneRuns, TypeOK
<1>10. CASE LaneFails(p)
  <2>1. Len(proc[p].results) < Len(Lanes)
    BY <1>10 DEF LaneFails, Converting, RowsOf
  <2>2. NextLane(p) \in LaneNames
    BY <2>1, NextLaneType
  <2> DEFINE row == [lane |-> NextLane(p), ok |-> FALSE, on |-> None]
  <2>3. Append(proc[p].results, row) \in Seq(Rows)
    <3>1. row \in Rows
      BY <2>2 DEF Rows
    <3> QED
      BY <3>1, Sequences, Zenon
  <2>4. PICK context \in BOOLEAN :
           proc' = [proc EXCEPT ![p].at = "lanes", ![p].building = None,
                                ![p].results = Append(proc[p].results, row),
                                ![p].pycuda = proc[p].pycuda \/ context]
    BY <1>10 DEF LaneFails, TypeOK
  <2> HIDE DEF row
  <2>5. proc' \in [Procs -> Processes]
    BY <2>3, <2>4 DEF TypeOK, Processes, Places, Running
  <2>6. (Fault \/ UNCHANGED faults) /\ UNCHANGED <<args, pts, disk, docs, gaveUp>>
    BY <1>10 DEF LaneFails
  <2>7. faults' \in Nat
    BY <2>6, FaultStep DEF TypeOK
  <2> QED
    BY <2>5, <2>6, <2>7 DEF TypeOK
<1>11. CASE WriteJson(p)
  <2>1. Current(p) \in Variants
    BY <1>11, RequestedType DEF WriteJson, InHand, HandOf, Running, Current
  <2> DEFINE doc == [variant |-> Current(p), configs |-> proc[p].results]
             Docs == [variant : Variants, configs : Seq(Rows)]
  <2>4. doc \in Docs
    BY <2>1
  <2>5. docs \in Seq(Docs) /\ docs' = Append(docs, doc)
    BY <1>11 DEF WriteJson, TypeOK
  <2> HIDE DEF doc, Docs
  <2>6. docs' \in Seq(Docs)
    BY <2>4, <2>5, Sequences
  <2>2. docs' \in Seq([variant : Variants, configs : Seq(Rows)])
    BY <2>6 DEF Docs
  <2>3. proc' \in [Procs -> Processes]
    BY <1>11 DEF WriteJson, TypeOK, Processes, Places
  <2> QED
    BY <1>11, <2>2, <2>3 DEF WriteJson, TypeOK
<1>12. CASE RunRaises(p)
  <2>1. Current(p) \in Variants
    BY <1>12, RequestedType DEF RunRaises, Building, InHand, HandOf, Running, Current
  <2>2. proc' \in [Procs -> Processes]
    BY <1>12, <2>1 DEF RunRaises, TypeOK, Processes, Places
  <2>6. (Fault \/ UNCHANGED faults) /\ UNCHANGED <<args, pts, disk, docs, gaveUp>>
    BY <1>12 DEF RunRaises
  <2>7. faults' \in Nat
    BY <2>6, FaultStep DEF TypeOK
  <2> QED
    BY <2>2, <2>6, <2>7 DEF TypeOK
<1> QED
  BY <1>1, <1>2, <1>3, <1>4, <1>5, <1>6, <1>7, <1>8, <1>9, <1>10, <1>11, <1>12, <1>13
     DEF Work

\* Reap, and Kill.
LEMMA EndType ==
    ASSUME TypeOK, \A p \in Procs : InHand(p),
           Reap \/ \E p \in Procs : Kill(p)
    PROVE  TypeOK'
<1>1. CASE Reap
  <2>1. Current("main") \in Variants /\ proc["main"] \in Processes
    BY <1>1, RequestedType DEF Reap, InHand, HandOf, Current, Procs, TypeOK
  <2>2. Off \in Processes
    BY OffType
  <2> DEFINE fs == IF proc["worker"].at = "exit0" THEN proc["main"].failed
                   ELSE proc["main"].failed \cup {Current("main")}
             r == [proc["main"] EXCEPT !.at = "each", !.failed = fs]
  <2>3. fs \subseteq Variants
    BY <2>1 DEF Processes
  <2>4. proc' = [main |-> r, worker |-> Off]
    BY <1>1 DEF Reap
  <2> HIDE DEF fs
  <2>5. r \in Processes
    BY <2>1, <2>3 DEF Processes, Places
  <2> HIDE DEF r
  <2>6. proc' \in [Procs -> Processes]
    BY <2>2, <2>4, <2>5 DEF Procs
  <2> QED
    BY <1>1, <2>6 DEF Reap, TypeOK
<1>2. ASSUME NEW p \in Procs, Kill(p) PROVE TypeOK'
  <2>1. proc[p] \in Processes
    BY DEF TypeOK
  <2> DEFINE r == [proc[p] EXCEPT !.at = "killed", !.building = None]
  <2>2. r \in Processes
    BY <2>1 DEF Processes, Places, Over
  <2>3. proc' = [proc EXCEPT ![p] = r]
    BY <1>2 DEF Kill
  <2>4. proc' \in [Procs -> Processes]
    BY <2>2, <2>3, OneMoves
  <2>5. faults' \in Nat /\ UNCHANGED <<args, pts, disk, docs, gaveUp>>
    BY <1>2, FaultStep DEF Kill
  <2> QED
    BY <2>4, <2>5 DEF TypeOK
<1> QED
  BY <1>1, <1>2

-----------------------------------------------------------------------------
(* Steps of one process.                                                   *)

\* What the invariant says of one process.
LEMMA InvFacts ==
    ASSUME Inv, NEW p \in Procs
    PROVE  /\ TypeOK /\ Roles /\ InHand(p)
           /\ proc[p] \in Processes /\ ProcInv(p)
           /\ args \in ArgsType
  BY DEF Inv, ProcInv, InHand, TypeOK

\* What a process owes was asked for, and is not filtered out.
LEMMA OwedFacts ==
    ASSUME Inv, NEW p \in Procs, NEW v \in Owed(p)
    PROVE  v \in Requested /\ v \in Variants /\ OnlyMode(p) \in {"any", v.mode}
<1>1. CASE p = "main"
  BY <1>1, RequestedType DEF Owed, Requested, OnlyMode
<1>2. CASE p # "main"
  <2>1. proc["main"].at = "wait" /\ v = Current("main")
    BY <1>2 DEF Owed
  <2>2. Current("main") \in Requested
    BY <2>1, InvFacts DEF Procs, InHand, HandOf, Current
  <2>3. OnlyMode(p) = v.mode
    BY <1>2, <2>1 DEF OnlyMode, Current, Variant
  <2> QED
    BY <2>1, <2>2, <2>3, RequestedType
<1> QED
  BY <1>1, <1>2

\* A worker does one mode, under a command that left the mode open.
LEMMA OnlyOfWorker ==
    ASSUME Inv, NEW p \in Procs, proc[p].at # "off"
    PROVE  /\ p = "worker" => proc["main"].at = "wait" /\ OnlyMode(p) \in Modes
           /\ p = "worker" => OnlyMode(p) # "any" /\ Isolating
           /\ \A md : OnlyMode(p) \in {"any", md} => args.only \in {"any", md}
<1>1. CASE p = "main"
  BY <1>1 DEF OnlyMode
<1>2. CASE p = "worker"
  <2>1. proc["main"].at = "wait" /\ Isolating
    BY <1>2, InvFacts, OffAt DEF Roles
  <2>2. Current("main") \in Requested
    BY <2>1, InvFacts DEF Procs, InHand, HandOf, Current
  <2>3. proc["main"].mode \in Modes
    BY <2>2, RequestedType DEF Current, Variant, Variants
  <2> QED
    BY <1>2, <2>1, <2>3 DEF OnlyMode, Modes, Isolating
<1> QED
  BY <1>1, <1>2 DEF Procs

\* What a step of p makes of its record, and of what it owes.
Onward(p, s) ==
    /\ s \in Processes
    /\ HandOf(s, Requested) /\ RowsOf(s, Lanes, Tag) /\ ExitOf(s)
    /\ Isolated => CleanOf(s, Lanes)
    /\ p = "worker" => SingleOf(s)
    /\ s.at \notin {"off", "wait"}
    /\ s.at \in Running => proc[p].at \in Running \/ ~Orchestrate(p)
    /\ s.pycuda => proc[p].pycuda \/ (Isolated => p # "main")
    /\ s.failed = proc[p].failed \/ RunRaises(p)
    /\ s.at \in {"crashed", "killed"} => NotFound(p) \/ Kill(p)
    /\ s.at = "rename" => ExportEnds(p)
    /\ s.at \in {"crashed", "killed"}
          \/ \A v \in Owed(p) :
                v \in AheadOf(proc[p]) \cup proc[p].failed =>
                   v \in Done' \cup s.failed \cup gaveUp' \cup AheadOf(s)

\* The next model is taken from the list.
LEMMA NextModelStep ==
    ASSUME Inv, NEW p \in Procs, NextModel(p)
    PROVE  Onward(p, proc'[p])
<1> DEFINE r == proc[p]
           s == proc'[p]
<1>0. r \in Processes /\ r.todo \in Seq(ToSet(Models)) /\ r.modes \in Seq(Modes)
      /\ ProcInv(p)
  BY InvFacts, ProcFields
<1>1. /\ r.at = "models" /\ r.todo # <<>>
      /\ s = [r EXCEPT !.at = "locate", !.model = Head(r.todo), !.todo = Tail(r.todo)]
  BY InvFacts DEF NextModel, TypeOK
<1>2. /\ s.at = "locate" /\ s.model = Head(r.todo) /\ s.todo = Tail(r.todo)
      /\ s.modes = r.modes /\ s.results = r.results /\ s.pycuda = r.pycuda
      /\ s.failed = r.failed
  BY <1>0, <1>1 DEF Processes
<1>3. Head(r.todo) \in ToSet(Models) /\ Tail(r.todo) \in Seq(ToSet(Models))
  BY <1>0, <1>1, Sequences, Zenon
<1>4. s \in Processes
  BY <1>0, <1>1, <1>3 DEF Processes, Places
<1> HIDE DEF r, s
<1>5. HandOf(s, Requested) /\ RowsOf(s, Lanes, Tag) /\ ExitOf(s)
  BY <1>2, <1>3 DEF HandOf, RowsOf, ExitOf, Running
<1>6. Isolated => CleanOf(s, Lanes)
  <2>1. Isolated => CleanOf(r, Lanes)
    BY <1>0 DEF ProcInv, r
  <2> QED
    BY <1>1, <1>2, <2>1 DEF CleanOf
<1>7. p = "worker" => SingleOf(s)
  <2> SUFFICES ASSUME p = "worker" PROVE SingleOf(s)
    OBVIOUS
  <2>1. SingleOf(r)
    BY <1>0 DEF ProcInv, r
  <2>2. Len(r.todo) = 1
    BY <1>1, <2>1 DEF SingleOf
  <2>4. Len(r.todo) <= 1
    BY <2>2
  <2>3. Tail(r.todo) = <<>>
    BY <1>0, <1>1, <2>4, TailOfOne, Zenon
  <2> QED
    BY <1>2, <2>3 DEF SingleOf, Running
<1>8. \A v \in AheadOf(r) : v \in AheadOf(s)
  <2>1. ToSet(r.todo) \subseteq {Head(r.todo)} \cup ToSet(Tail(r.todo))
    BY <1>0, <1>1, HeadOrTail
  <2> QED
    BY <1>1, <1>2, <2>1 DEF AheadOf, Running
<1> QED
  BY <1>1, <1>2, <1>4, <1>5, <1>6, <1>7, <1>8
     DEF Onward, Running, r, s

\* The model's weights are there.
LEMMA LocateStep ==
    ASSUME Inv, NEW p \in Procs, Locate(p)
    PROVE  Onward(p, proc'[p])
<1> DEFINE r == proc[p]
           s == proc'[p]
<1>0. r \in Processes /\ ProcInv(p)
  BY InvFacts
<1>1. r.at = "locate" /\ s = [r EXCEPT !.at = "variants"]
  BY InvFacts DEF Locate, TypeOK
<1>2. /\ s.at = "variants" /\ s.model = r.model /\ s.todo = r.todo
      /\ s.modes = r.modes /\ s.results = r.results /\ s.pycuda = r.pycuda
      /\ s.failed = r.failed
  BY <1>0, <1>1 DEF Processes
<1>3. s \in Processes
  BY <1>0, <1>1 DEF Processes, Places
<1> HIDE DEF r, s
<1>4. /\ HandOf(r, Requested)
      /\ Isolated => CleanOf(r, Lanes)
      /\ p = "worker" => SingleOf(r)
  BY <1>0 DEF ProcInv, r
<1>5. HandOf(s, Requested) /\ RowsOf(s, Lanes, Tag) /\ ExitOf(s)
  BY <1>1, <1>2, <1>4 DEF HandOf, RowsOf, ExitOf, Running
<1>6. Isolated => CleanOf(s, Lanes)
  BY <1>1, <1>2, <1>4 DEF CleanOf, Running, Over
<1>7. p = "worker" => SingleOf(s)
  BY <1>1, <1>2, <1>4 DEF SingleOf, Running
<1>8. \A v \in AheadOf(r) : v \in AheadOf(s)
  BY <1>1, <1>2 DEF AheadOf, Running
<1> QED
  BY <1>1, <1>2, <1>3, <1>5, <1>6, <1>7, <1>8
     DEF Onward, Running, r, s

\* The variants of the model are passed over together, or main is over.
LEMMA PassOverStep ==
    ASSUME Inv, NEW p \in Procs, NotFound(p) \/ VariantsFail(p)
    PROVE  Onward(p, proc'[p])
<1> DEFINE r == proc[p]
           s == proc'[p]
<1>0. r \in Processes /\ ProcInv(p)
  BY InvFacts
<1>1. r.at \in {"locate", "variants"}
  BY <1>0 DEF NotFound, VariantsFail
<1>2. PICK place \in {"models", "crashed"} :
         /\ s = [r EXCEPT !.at = place]
         /\ place = "crashed" => NotFound(p)
         /\ place = "models" =>
               gaveUp' = gaveUp \cup {v \in Requested : v.model = r.model
                                          /\ OnlyMode(p) \in {"any", v.mode}}
  BY InvFacts DEF NotFound, VariantsFail, PassOver, TypeOK
<1>3. /\ s.at = place /\ s.model = r.model /\ s.todo = r.todo
      /\ s.modes = r.modes /\ s.results = r.results /\ s.pycuda = r.pycuda
      /\ s.failed = r.failed
  BY <1>0, <1>2 DEF Processes
<1>4. s \in Processes
  BY <1>0, <1>2 DEF Processes, Places, Over
<1> HIDE DEF r, s
<1>5. /\ Isolated => CleanOf(r, Lanes)
      /\ p = "worker" => SingleOf(r)
  BY <1>0 DEF ProcInv, r
<1>6. HandOf(s, Requested) /\ RowsOf(s, Lanes, Tag) /\ ExitOf(s)
  BY <1>3 DEF HandOf, RowsOf, ExitOf, Running
<1>7. Isolated => CleanOf(s, Lanes)
  BY <1>1, <1>3, <1>5 DEF CleanOf, Running, Over
<1>8. p = "worker" => SingleOf(s)
  BY <1>1, <1>3, <1>5 DEF SingleOf, Running
<1>9. ASSUME s.at = "models", NEW v \in Owed(p), v \in AheadOf(r)
      PROVE  v \in gaveUp' \/ v \in AheadOf(s)
  <2>1. v \in Requested /\ OnlyMode(p) \in {"any", v.mode}
    BY OwedFacts
  <2>2. v \in Variants /\ (v.model \in ToSet(r.todo) \/ v.model = r.model)
    BY <1>1, <1>9 DEF AheadOf, Running
  <2>3. v.model = r.model => v \in gaveUp'
    BY <1>2, <1>3, <1>9, <2>1
  <2>4. v.model \in ToSet(r.todo) => v \in AheadOf(s)
    BY <1>3, <2>2 DEF AheadOf
  <2> QED
    BY <2>2, <2>3, <2>4
<1> QED
  BY <1>1, <1>2, <1>3, <1>4, <1>6, <1>7, <1>8, <1>9
     DEF Onward, Running, r, s

\* The variants of the model are known.
LEMMA GetVariantsStep ==
    ASSUME Inv, NEW p \in Procs, GetVariants(p)
    PROVE  Onward(p, proc'[p])
<1> DEFINE r == proc[p]
           s == proc'[p]
           ms == Chosen(ModesOf(r.model), OnlyMode(p))
<1>0. r \in Processes /\ ProcInv(p)
  BY InvFacts
<1>1. r.at = "variants" /\ s = [r EXCEPT !.at = "each", !.modes = ms]
  BY InvFacts DEF GetVariants, TypeOK
<1>2. /\ ms \in Seq(Modes)
      /\ \A md \in ToSet(ms) :
            md \in ToSet(ModesOf(r.model)) /\ OnlyMode(p) \in {"any", md}
      /\ OnlyMode(p) # "any" => Len(ms) <= 1
      /\ \A md \in ToSet(ModesOf(r.model)) :
            OnlyMode(p) \in {"any", md} => md \in ToSet(ms)
  BY ChosenType DEF ToSet
<1> HIDE DEF ms
<1>3. /\ s.at = "each" /\ s.model = r.model /\ s.todo = r.todo
      /\ s.modes = ms /\ s.results = r.results /\ s.pycuda = r.pycuda
      /\ s.failed = r.failed
  BY <1>0, <1>1 DEF Processes
<1>4. s \in Processes
  BY <1>0, <1>1, <1>2 DEF Processes, Places
<1> HIDE DEF r, s
<1>5. /\ HandOf(r, Requested)
      /\ Isolated => CleanOf(r, Lanes)
      /\ p = "worker" => SingleOf(r)
  BY <1>0 DEF ProcInv, r
<1>6. r.model \in ToSet(Models)
  BY <1>1, <1>5 DEF HandOf
<1>7. HandOf(s, Requested) /\ RowsOf(s, Lanes, Tag) /\ ExitOf(s)
  <2>1. ASSUME NEW md \in ToSet(ms) PROVE Variant(r.model, md) \in Requested
    <3>1. md \in ToSet(ModesOf(r.model)) /\ OnlyMode(p) \in {"any", md} /\ md \in Modes
      BY <1>2 DEF ToSet
    <3>2. args.only \in {"any", md}
      BY <1>1, <3>1, OnlyOfWorker DEF r
    <3> QED
      BY <1>6, <3>1, <3>2 DEF Requested, Variant
  <2> QED
    BY <1>3, <1>6, <2>1 DEF HandOf, RowsOf, ExitOf, Running
<1>8. Isolated => CleanOf(s, Lanes)
  BY <1>1, <1>3, <1>5 DEF CleanOf, Running, Over
<1>9. p = "worker" => SingleOf(s)
  <2>1. p = "worker" => OnlyMode(p) # "any"
    BY <1>1, OnlyOfWorker DEF r
  <2> QED
    BY <1>1, <1>2, <1>3, <1>5, <2>1 DEF SingleOf, Running
<1>10. ASSUME NEW v \in Owed(p), v \in AheadOf(r)
       PROVE  v \in AheadOf(s)
  <2>1. v \in Requested /\ OnlyMode(p) \in {"any", v.mode}
    BY OwedFacts
  <2>2. v \in Variants /\ (v.model \in ToSet(r.todo) \/ v.model = r.model)
    BY <1>1, <1>10 DEF AheadOf, Running
  <2>3. v.model = r.model => v.mode \in ToSet(ms)
    BY <1>2, <2>1 DEF Requested
  <2> QED
    BY <1>3, <2>2, <2>3 DEF AheadOf
<1> QED
  BY <1>1, <1>3, <1>4, <1>7, <1>8, <1>9, <1>10
     DEF Onward, Running, r, s

\* main is through, or with the variants of a model.
LEMMA FinishStep ==
    ASSUME Inv, NEW p \in Procs, Finish(p) \/ LastVariant(p)
    PROVE  Onward(p, proc'[p])
<1> DEFINE r == proc[p]
           s == proc'[p]
<1>0. r \in Processes /\ ProcInv(p)
  BY InvFacts
<1>1. PICK place \in {"models", "exit0", "exit1"} :
         /\ s = [r EXCEPT !.at = place]
         /\ place = "models" => r.at = "each" /\ r.modes = <<>>
         /\ place # "models" => r.at = "models" /\ r.todo = <<>>
         /\ place = "exit0" => r.failed = {}
         /\ place = "exit1" => r.failed # {}
  <2>1. CASE Finish(p)
    BY <2>1, InvFacts DEF Finish, TypeOK
  <2>2. CASE LastVariant(p)
    BY <2>2, InvFacts DEF LastVariant, TypeOK
  <2> QED
    BY <2>1, <2>2
<1>2. /\ s.at = place /\ s.model = r.model /\ s.todo = r.todo
      /\ s.modes = r.modes /\ s.results = r.results /\ s.pycuda = r.pycuda
      /\ s.failed = r.failed
  BY <1>0, <1>1 DEF Processes
<1>3. s \in Processes
  BY <1>0, <1>1 DEF Processes, Places, Over
<1> HIDE DEF r, s
<1>4. /\ Isolated => CleanOf(r, Lanes)
      /\ p = "worker" => SingleOf(r)
  BY <1>0 DEF ProcInv, r
<1>5. HandOf(s, Requested) /\ RowsOf(s, Lanes, Tag) /\ ExitOf(s)
  BY <1>1, <1>2 DEF HandOf, RowsOf, ExitOf, Running
<1>6. Isolated => CleanOf(s, Lanes)
  BY <1>1, <1>2, <1>4 DEF CleanOf, Over
<1>7. p = "worker" => SingleOf(s)
  BY <1>1, <1>2, <1>4 DEF SingleOf, Running
<1>8. \A v \in AheadOf(r) : v \in AheadOf(s)
  <2>1. ToSet(<<>>) = {}
    BY DEF ToSet
  <2> QED
    BY <1>1, <1>2, <2>1 DEF AheadOf, Running
<1> QED
  BY <1>1, <1>2, <1>3, <1>5, <1>6, <1>7, <1>8
     DEF Onward, Running, r, s

\* A process without workers goes into run_benchmark_a.
LEMMA NextVariantStep ==
    ASSUME Inv, NEW p \in Procs, NextVariant(p), ~Orchestrate(p)
    PROVE  Onward(p, proc'[p])
<1> DEFINE r == proc[p]
           s == proc'[p]
<1>0. r \in Processes /\ r.modes \in Seq(Modes) /\ ProcInv(p)
  BY InvFacts, ProcFields
<1>1. /\ r.at = "each" /\ r.modes # <<>>
      /\ s = [r EXCEPT !.mode = Head(r.modes), !.modes = Tail(r.modes),
                       !.results = <<>>, !.at = "setup"]
  <2>1. proc' = [proc EXCEPT ![p] =
                    [[r EXCEPT !.mode = Head(r.modes), !.modes = Tail(r.modes),
                               !.results = <<>>] EXCEPT !.at = "setup"]]
    BY DEF NextVariant
  <2> QED
    BY <2>1, InvFacts DEF NextVariant, TypeOK
<1>2. /\ s.at = "setup" /\ s.model = r.model /\ s.mode = Head(r.modes)
      /\ s.todo = r.todo /\ s.modes = Tail(r.modes) /\ s.results = <<>>
      /\ s.pycuda = r.pycuda /\ s.failed = r.failed
  BY <1>0, <1>1 DEF Processes
<1>3. /\ Head(r.modes) \in Modes /\ Tail(r.modes) \in Seq(Modes)
      /\ <<>> \in Seq(Rows)
      /\ ToSet(r.modes) = {Head(r.modes)} \cup ToSet(Tail(r.modes))
  BY <1>0, <1>1, Sequences, HeadOrTail, Zenon
<1>4. s \in Processes
  BY <1>0, <1>1, <1>3 DEF Processes, Places, Running
<1> HIDE DEF r, s
<1>5. /\ HandOf(r, Requested)
      /\ Isolated => CleanOf(r, Lanes)
      /\ p = "worker" => SingleOf(r)
  BY <1>0 DEF ProcInv, r
<1>6. HandOf(s, Requested) /\ RowsOf(s, Lanes, Tag) /\ ExitOf(s)
  BY <1>1, <1>2, <1>3, <1>5 DEF HandOf, RowsOf, ExitOf, Running
<1>7. Isolated => CleanOf(s, Lanes)
  BY <1>1, <1>2, <1>5 DEF CleanOf
<1>8. p = "worker" => SingleOf(s)
  <2> SUFFICES ASSUME p = "worker" PROVE SingleOf(s)
    OBVIOUS
  <2>1. Len(r.modes) <= 1 /\ r.todo = <<>>
    BY <1>1, <1>5 DEF SingleOf
  <2>2. Tail(r.modes) = <<>>
    BY <1>0, <1>1, <2>1, TailOfOne, Zenon
  <2> QED
    BY <1>2, <2>1, <2>2 DEF SingleOf
<1>9. \A v \in AheadOf(r) : v \in AheadOf(s)
  <2> SUFFICES ASSUME NEW v \in AheadOf(r) PROVE v \in AheadOf(s)
    OBVIOUS
  <2>1. /\ v \in Variants
        /\ \/ v.model \in ToSet(r.todo)
           \/ v.model = r.model /\ v.mode \in ToSet(r.modes)
    BY <1>1 DEF AheadOf, Running
  <2>2. v = Variant(v.model, v.mode)
    BY <2>1 DEF Variant, Variants
  <2> QED
    BY <1>2, <1>3, <2>1, <2>2 DEF AheadOf, Running
<1> QED
  BY <1>1, <1>2, <1>4, <1>6, <1>7, <1>8, <1>9
     DEF Onward, Running, r, s

\* The graph is there, or is about to be.
LEMMA ExportStep ==
    ASSUME Inv, NEW p \in Procs, SkipExport(p) \/ Export(p)
    PROVE  Onward(p, proc'[p])
<1> DEFINE r == proc[p]
           s == proc'[p]
<1>0. r \in Processes /\ ProcInv(p)
  BY InvFacts
<1>1. r.at \in {"setup", "lanes"}
  BY DEF SkipExport, Export, LaneExports
<1>2. /\ HandOf(r, Requested) /\ RowsOf(r, Lanes, Tag)
      /\ Isolated => CleanOf(r, Lanes)
      /\ p = "worker" => SingleOf(r)
  BY <1>0 DEF ProcInv
<1>3. /\ ToExport(p) \in Graphs
      /\ r.at = "setup" => ToExport(p).fmt # "mlpackage"
  <2>1. Current(p) \in Requested
    BY <1>1, <1>2 DEF HandOf, Running, Current
  <2> QED
    BY <2>1, InvFacts, ToExportType
<1>4. PICK place \in {"lanes", "export"}, b \in Graphs \cup {None} :
         /\ s = [r EXCEPT !.at = place, !.building = b]
         /\ place = "lanes" => r.at = "setup"
         /\ place = "export" =>
               /\ b \in Graphs /\ ~r.pycuda
               /\ r.at = "setup" => b.fmt # "mlpackage"
               /\ r.at = "lanes" => Len(r.results) < Len(Lanes)
  <2>1. CASE SkipExport(p)
    <3>1. s = [r EXCEPT !.at = "lanes"] /\ r.at = "setup"
      BY <2>1, InvFacts DEF SkipExport, TypeOK
    <3>2. s = [r EXCEPT !.at = "lanes", !.building = r.building]
      BY <1>0, <3>1 DEF Processes
    <3>3. r.building \in Graphs \cup {None}
      BY <1>0 DEF Processes
    <3> QED
      BY <3>1, <3>2, <3>3
  <2>2. CASE Export(p)
    <3>1. /\ s = [r EXCEPT !.at = "export", !.building = ToExport(p)]
          /\ ~r.pycuda
          /\ r.at = "lanes" => Len(r.results) < Len(Lanes)
      BY <2>2, InvFacts DEF Export, LaneExports, TypeOK
    <3> QED
      BY <1>3, <3>1
  <2> QED
    BY <2>1, <2>2
<1>5. /\ s.at = place /\ s.model = r.model /\ s.mode = r.mode
      /\ s.todo = r.todo /\ s.modes = r.modes /\ s.results = r.results
      /\ s.pycuda = r.pycuda /\ s.failed = r.failed /\ s.building = b
  BY <1>0, <1>4 DEF Processes
<1>6. s \in Processes
  BY <1>0, <1>4 DEF Processes, Places, Running
<1> HIDE DEF r, s
<1>7. HandOf(s, Requested) /\ ExitOf(s)
  BY <1>1, <1>2, <1>4, <1>5 DEF HandOf, ExitOf, Running
<1>8. RowsOf(s, Lanes, Tag)
  <2>1. CASE r.at = "setup"
    <3>1. r.results = <<>>
      BY <1>2, <2>1 DEF RowsOf
    <3>2. Len(<<>>) = 0 /\ Len(Lanes) \in Nat
      BY LanesType, InvFacts
    <3> QED
      BY <1>4, <1>5, <2>1, <3>1, <3>2 DEF RowsOf
  <2>2. CASE r.at = "lanes"
    BY <1>2, <1>4, <1>5, <2>2 DEF RowsOf
  <2> QED
    BY <1>1, <2>1, <2>2
<1>9. Isolated => CleanOf(s, Lanes)
  BY <1>1, <1>4, <1>5, <1>2 DEF CleanOf, Over
<1>10. p = "worker" => SingleOf(s)
  BY <1>1, <1>4, <1>5, <1>2 DEF SingleOf, Running
<1>11. \A v \in AheadOf(r) : v \in AheadOf(s)
  BY <1>1, <1>4, <1>5 DEF AheadOf, Running
<1> QED
  BY <1>1, <1>4, <1>5, <1>6, <1>7, <1>8, <1>9, <1>10, <1>11
     DEF Onward, Running, r, s

\* The export returns, and gets its name.
LEMMA RenameStep ==
    ASSUME Inv, NEW p \in Procs, ExportEnds(p) \/ Rename(p)
    PROVE  Onward(p, proc'[p])
<1> DEFINE r == proc[p]
           s == proc'[p]
<1>0. r \in Processes /\ ProcInv(p)
  BY InvFacts
<1>1. PICK place \in {"rename", "lanes"}, b \in Graphs \cup {None} :
         /\ s = [r EXCEPT !.at = place, !.building = b]
         /\ r.at \in {"export", "rename"}
         /\ place = "rename" => b = r.building /\ ExportEnds(p)
  <2>1. r.building \in Graphs \cup {None}
    BY <1>0 DEF Processes
  <2>2. CASE ExportEnds(p)
    <3>1. s = [r EXCEPT !.at = "rename"] /\ r.at = "export"
      BY <2>2, InvFacts DEF ExportEnds, TypeOK
    <3>2. s = [r EXCEPT !.at = "rename", !.building = r.building]
      BY <1>0, <3>1 DEF Processes
    <3> QED
      BY <2>1, <2>2, <3>1, <3>2
  <2>3. CASE Rename(p)
    <3>1. r.at = "rename" /\ s = [r EXCEPT !.at = "lanes", !.building = None]
      BY <2>3, InvFacts DEF Rename, TypeOK
    <3> QED
      BY <3>1
  <2> QED
    BY <2>2, <2>3
<1>2. /\ s.at = place /\ s.model = r.model /\ s.mode = r.mode
      /\ s.todo = r.todo /\ s.modes = r.modes /\ s.results = r.results
      /\ s.pycuda = r.pycuda /\ s.failed = r.failed /\ s.building = b
  BY <1>0, <1>1 DEF Processes
<1>3. s \in Processes
  BY <1>0, <1>1 DEF Processes, Places, Running
<1>4. /\ HandOf(r, Requested) /\ RowsOf(r, Lanes, Tag)
      /\ Isolated => CleanOf(r, Lanes)
      /\ p = "worker" => SingleOf(r)
  BY <1>0 DEF ProcInv
<1> HIDE DEF r, s
<1>5. HandOf(s, Requested) /\ ExitOf(s)
  BY <1>1, <1>2, <1>4 DEF HandOf, ExitOf, Running
<1>6. RowsOf(s, Lanes, Tag)
  BY <1>1, <1>2, <1>4 DEF RowsOf
<1>7. Isolated => CleanOf(s, Lanes)
  BY <1>1, <1>2, <1>4 DEF CleanOf, Over
<1>8. p = "worker" => SingleOf(s)
  BY <1>1, <1>2, <1>4 DEF SingleOf, Running
<1>9. \A v \in AheadOf(r) : v \in AheadOf(s)
  BY <1>1, <1>2 DEF AheadOf, Running
<1> QED
  BY <1>1, <1>2, <1>3, <1>5, <1>6, <1>7, <1>8, <1>9
     DEF Onward, Running, r, s

\* A lane and its row: what is loaded is the variant's own graph.
LEMMA LoadsOwn ==
    ASSUME Inv, NEW p \in Procs, LaneRuns(p)
    PROVE  LET g == LaneLoads(p)
           IN  /\ g \in Graphs
               /\ g.variant = Current(p) /\ g.fmt = FormatOf(NextLane(p))
               /\ g.fmt = "engine" => TagOf(g.precision) = Tag
<1>1. Current(p) \in Variants
  <2>1. proc[p].at = "lanes" /\ InHand(p)
    BY InvFacts DEF LaneRuns
  <2> QED
    BY <2>1, RequestedType DEF InHand, HandOf, Running, Current
<1>2. FormatOf(NextLane(p)) \in Formats
  BY DEF FormatOf, Formats
<1> DEFINE g == LaneGraph(p)
<1>3. /\ g \in Graphs /\ g.variant = Current(p) /\ g.fmt = FormatOf(NextLane(p))
      /\ g.fmt = "engine" => g.precision = args.precision
  <2>1. g \in Graphs
    BY <1>1, <1>2, InvFacts, GraphOfType DEF LaneGraph
  <2> QED
    BY <2>1 DEF LaneGraph, GraphOf
<1> HIDE DEF g
<1>4. ASSUME Cached(g)
      PROVE  /\ Loaded(g) \in Graphs /\ Loaded(g).variant = g.variant
             /\ Loaded(g).fmt = g.fmt
             /\ TagOf(Loaded(g).precision) = TagOf(g.precision)
  <2>1. PICK f \in disk : f.name = NameOf(g) /\ Loaded(g) = f.graph
    BY <1>4 DEF Cached, Loaded
  <2>2. f.graph \in Graphs /\ f.name = NameOf(f.graph)
    <3>1. f.graph \in Graphs /\ (f.name = NameOf(f.graph) \/ f.name = ScratchOf(f.graph))
      BY InvFacts DEF Inv, DiskInv, TypeOK, Files
    <3>2. NameOf(g) # ScratchOf(f.graph)
      BY <1>3, <3>1, NameType
    <3> QED
      BY <2>1, <3>1, <3>2
  <2>3. NameOf(f.graph) = NameOf(g)
    BY <2>1, <2>2
  <2>4. \A h \in Graphs : /\ NameOf(h).variant = h.variant /\ NameOf(h).fmt = h.fmt
                          /\ NameOf(h).precision = TagOf(h.precision)
    BY DEF NameOf, Graphs, TagOf
  <2> QED
    BY <1>3, <2>1, <2>2, <2>3, <2>4
<1>5. LaneLoads(p) = g \/ (Cached(g) /\ LaneLoads(p) = Loaded(g))
  BY DEF LaneLoads, g
<1> QED
  BY <1>3, <1>4, <1>5 DEF Tag

\* A row is added; pycuda comes with yv-tensorrt, in a worker that has no
\* other variant if there is isolation.
LEMMA LaneStep ==
    ASSUME Inv, NEW p \in Procs, LaneRuns(p) \/ LaneFails(p)
    PROVE  /\ Onward(p, proc'[p])
           /\ proc'[p].at = "lanes"
           /\ proc'[p].results[Len(proc[p].results) + 1].lane = NextLane(p)
           /\ Len(proc'[p].results) = Len(proc[p].results) + 1
           /\ Isolated => p # "main" \/ ~proc'[p].pycuda
<1> DEFINE r == proc[p]
           s == proc'[p]
<1>0. r \in Processes /\ ProcInv(p) /\ r.results \in Seq(Rows)
  BY InvFacts, ProcFields
<1>1. /\ r.at \in {"lanes", "export", "rename"}
      /\ Len(r.results) < Len(Lanes)
  BY <1>0 DEF LaneRuns, LaneFails, Converting, ProcInv, RowsOf
<1>2. Len(r.results) + 1 \in 1 .. Len(Lanes) /\ NextLane(p) \in LaneNames
  BY <1>1, InvFacts, NextLaneType
<1>3. PICK row \in Rows, context \in BOOLEAN, b \in Graphs \cup {None} :
         /\ s = [r EXCEPT !.at = "lanes", !.building = b,
                          !.results = Append(r.results, row),
                          !.pycuda = r.pycuda \/ context]
         /\ OwnRow(row, NextLane(p), Current(p), Tag)
         /\ context => NextLane(p) = "yv-tensorrt"
  <2>1. CASE LaneRuns(p)
    <3> DEFINE row == [lane |-> NextLane(p), ok |-> TRUE, on |-> LaneLoads(p)]
               context == NextLane(p) = "yv-tensorrt"
    <3>1. row \in Rows /\ OwnRow(row, NextLane(p), Current(p), Tag)
      BY <1>2, <2>1, LoadsOwn DEF Rows, OwnRow
    <3>2. r.at = "lanes" /\ s = [r EXCEPT !.results = Append(r.results, row),
                                          !.pycuda = r.pycuda \/ context]
      BY <2>1, InvFacts DEF LaneRuns, TypeOK
    <3>3. s = [r EXCEPT !.at = "lanes", !.building = r.building,
                        !.results = Append(r.results, row),
                        !.pycuda = r.pycuda \/ context]
      <4> HIDE DEF row, context
      <4> QED
        BY <1>0, <3>2 DEF Processes
    <3>4. r.building \in Graphs \cup {None}
      BY <1>0 DEF Processes
    <3> QED
      BY <3>1, <3>3, <3>4
  <2>2. CASE LaneFails(p)
    <3> DEFINE row == [lane |-> NextLane(p), ok |-> FALSE, on |-> None]
    <3>1. row \in Rows /\ OwnRow(row, NextLane(p), Current(p), Tag)
      BY <1>2 DEF Rows, OwnRow
    <3>2. PICK context \in BOOLEAN :
             /\ s = [r EXCEPT !.at = "lanes", !.building = None,
                              !.results = Append(r.results, row),
                              !.pycuda = r.pycuda \/ context]
             /\ context => NextLane(p) = "yv-tensorrt"
      BY <2>2, InvFacts DEF LaneFails, TypeOK
    <3> QED
      BY <3>1, <3>2
  <2> QED
    BY <2>1, <2>2
<1>4. /\ s.at = "lanes" /\ s.model = r.model /\ s.mode = r.mode
      /\ s.todo = r.todo /\ s.modes = r.modes
      /\ s.results = Append(r.results, row)
      /\ s.pycuda = (r.pycuda \/ context) /\ s.failed = r.failed
  BY <1>0, <1>1, <1>3 DEF Processes
<1>5. Append(r.results, row) \in Seq(Rows)
  BY <1>0, Sequences, Zenon
<1>6. s \in Processes
  BY <1>0, <1>3, <1>5 DEF Processes, Places, Running
<1>7. /\ HandOf(r, Requested) /\ RowsOf(r, Lanes, Tag)
      /\ Isolated => CleanOf(r, Lanes)
      /\ p = "worker" => SingleOf(r)
  BY <1>0 DEF ProcInv
<1>8. NextLane(p) = Lanes[Len(r.results) + 1] /\ Current(p) = Variant(r.model, r.mode)
  BY DEF NextLane, Current
<1>9. /\ Len(s.results) = Len(r.results) + 1 /\ Len(r.results) \in Nat
      /\ s.results[Len(r.results) + 1] = row
      /\ \A k \in 1 .. Len(r.results) : s.results[k] = r.results[k]
  BY <1>0, <1>4
<1>10. r.pycuda \in BOOLEAN /\ s.pycuda \in BOOLEAN
  BY <1>0, <1>6 DEF Processes
<1>19. row.lane = NextLane(p)
  BY <1>3 DEF OwnRow
<1>20. p = "main" /\ Isolated => ~(NextLane(p) = "yv-tensorrt")
  <2>1. NextLane(p) = "yv-tensorrt" => args.device = "tensorrt"
    BY <1>2, <1>8, LanesOrder
  <2>2. Isolating => ~(p = "main")
    BY <1>1, InvFacts DEF Roles, Running
  <2> QED
    BY <2>1, <2>2 DEF Isolated, Isolating
<1>21. Isolated => p # "main" \/ ~s.pycuda
  BY <1>3, <1>4, <1>10, <1>20, InvFacts DEF Roles
<1> HIDE DEF r, s
<1>11. HandOf(s, Requested) /\ ExitOf(s)
  BY <1>1, <1>4, <1>7 DEF HandOf, ExitOf, Running
<1>12. RowsOf(s, Lanes, Tag)
  <2>1. \A k \in 1 .. Len(r.results) :
           OwnRow(r.results[k], Lanes[k], Variant(r.model, r.mode), Tag)
    BY <1>1, <1>7 DEF RowsOf
  <2>2. ASSUME NEW k \in 1 .. Len(s.results)
        PROVE  OwnRow(s.results[k], Lanes[k], Variant(s.model, s.mode), Tag)
    <3>1. CASE k = Len(r.results) + 1
      BY <1>3, <1>4, <1>8, <1>9, <3>1
    <3>2. CASE k # Len(r.results) + 1
      <4>1. k \in 1 .. Len(r.results)
        BY <1>9, <3>2
      <4> QED
        BY <1>4, <1>9, <2>1, <4>1
    <3> QED
      BY <3>1, <3>2
  <2>3. Len(s.results) <= Len(Lanes)
    BY <1>2, <1>9
  <2> QED
    BY <1>4, <2>2, <2>3 DEF RowsOf
<1>13. Isolated => CleanOf(s, Lanes)
  <2> SUFFICES ASSUME Isolated, s.pycuda PROVE CleanOf(s, Lanes)
    BY <1>10 DEF CleanOf
  <2>1. CASE r.pycuda
    <3>1. (Len(s.results) + 1) .. Len(Lanes) \subseteq (Len(r.results) + 1) .. Len(Lanes)
      BY <1>9
    <3> QED
      BY <1>4, <1>7, <2>1, <3>1 DEF CleanOf
  <2>2. CASE ~r.pycuda
    <3>1. NextLane(p) = "yv-tensorrt"
      BY <1>3, <1>4, <2>2
    <3>2. p = "worker"
      BY <1>20, <3>1 DEF Procs
    <3>3. r.todo = <<>> /\ r.modes = <<>>
      BY <1>1, <1>7, <3>2 DEF SingleOf, Running
    <3>4. \A k \in (Len(r.results) + 1 + 1) .. Len(Lanes) : Lanes[k] \notin OnPyTorch
      BY <1>2, <1>8, <3>1, LanesOrder
    <3>5. Len(s.results) + 1 = Len(r.results) + 1 + 1
      BY <1>9
    <3> QED
      BY <1>4, <3>3, <3>4, <3>5 DEF CleanOf
  <2> QED
    BY <1>10, <2>1, <2>2
<1>14. p = "worker" => SingleOf(s)
  BY <1>1, <1>4, <1>7 DEF SingleOf, Running
<1>15. \A v \in AheadOf(r) : v \in AheadOf(s)
  BY <1>1, <1>4 DEF AheadOf, Running
<1> QED
  BY <1>1, <1>4, <1>6, <1>9, <1>11, <1>12, <1>13, <1>14, <1>15, <1>19, <1>21
     DEF Onward, Running, r, s

\* The Markdown report, and the JSON that settles the variant.
LEMMA ReportStep ==
    ASSUME Inv, NEW p \in Procs, WriteTable(p) \/ WriteJson(p)
    PROVE  Onward(p, proc'[p])
<1> DEFINE r == proc[p]
           s == proc'[p]
<1>0. r \in Processes /\ ProcInv(p)
  BY InvFacts
<1>1. PICK place \in {"json", "each"} :
         /\ s = [r EXCEPT !.at = place]
         /\ place = "json" => r.at = "lanes" /\ Len(r.results) = Len(Lanes)
         /\ place = "each" => r.at = "json" /\ WriteJson(p)
  <2>1. CASE WriteTable(p)
    BY <2>1, InvFacts DEF WriteTable, TypeOK
  <2>2. CASE WriteJson(p)
    <3>1. r.at = "json" /\ s = [r EXCEPT !.at = "each"]
      BY <2>2, InvFacts DEF WriteJson, TypeOK
    <3> QED
      BY <2>2, <3>1
  <2> QED
    BY <2>1, <2>2
<1>2. /\ s.at = place /\ s.model = r.model /\ s.mode = r.mode
      /\ s.todo = r.todo /\ s.modes = r.modes /\ s.results = r.results
      /\ s.pycuda = r.pycuda /\ s.failed = r.failed
  BY <1>0, <1>1 DEF Processes
<1>3. s \in Processes
  BY <1>0, <1>1 DEF Processes, Places, Running
<1>4. /\ HandOf(r, Requested) /\ RowsOf(r, Lanes, Tag)
      /\ Isolated => CleanOf(r, Lanes)
      /\ p = "worker" => SingleOf(r)
  BY <1>0 DEF ProcInv
<1>5. WriteJson(p) => Variant(r.model, r.mode) \in Done'
  <2> SUFFICES ASSUME WriteJson(p) PROVE Variant(r.model, r.mode) \in Done'
    OBVIOUS
  <2>1. docs' = Append(docs, [variant |-> Variant(r.model, r.mode), configs |-> r.results])
    BY DEF WriteJson, Current
  <2>2. docs \in Seq([variant : Variants, configs : Seq(Rows)])
    BY InvFacts DEF TypeOK
  <2>3. Len(docs) + 1 \in 1 .. Len(docs')
        /\ docs'[Len(docs) + 1].variant = Variant(r.model, r.mode)
    BY <2>1, <2>2
  <2> QED
    BY <2>3 DEF Done
<1> HIDE DEF r, s
<1>6. HandOf(s, Requested) /\ ExitOf(s)
  BY <1>1, <1>2, <1>4 DEF HandOf, ExitOf, Running
<1>7. RowsOf(s, Lanes, Tag)
  BY <1>1, <1>2, <1>4 DEF RowsOf
<1>8. Isolated => CleanOf(s, Lanes)
  BY <1>1, <1>2, <1>4 DEF CleanOf, Over
<1>9. p = "worker" => SingleOf(s)
  <2>1. r.modes = <<>> => Len(r.modes) <= 1
    OBVIOUS
  <2> QED
    BY <1>1, <1>2, <1>4, <2>1 DEF SingleOf, Running
<1>10. \A v \in AheadOf(r) : v \in AheadOf(s) \/ v \in Done'
  BY <1>1, <1>2, <1>5 DEF AheadOf, Running
<1> QED
  BY <1>1, <1>2, <1>3, <1>6, <1>7, <1>8, <1>9, <1>10
     DEF Onward, Running, r, s

\* An exception costs the variant it is raised in.
LEMMA RaiseStep ==
    ASSUME Inv, NEW p \in Procs, RunRaises(p)
    PROVE  Onward(p, proc'[p])
<1> DEFINE r == proc[p]
           s == proc'[p]
<1>0. r \in Processes /\ ProcInv(p)
  BY InvFacts
<1>1. /\ r.at \in Running
      /\ s = [r EXCEPT !.at = "each", !.building = None,
                       !.failed = r.failed \cup {Current(p)}]
  BY InvFacts DEF RunRaises, Building, TypeOK, Running
<1>4. /\ HandOf(r, Requested)
      /\ Isolated => CleanOf(r, Lanes)
      /\ p = "worker" => SingleOf(r)
  BY <1>0 DEF ProcInv
<1>5. Current(p) = Variant(r.model, r.mode) /\ Current(p) \in Variants
  BY <1>1, <1>4, RequestedType DEF HandOf, Current
<1>2. /\ s.at = "each" /\ s.model = r.model
      /\ s.todo = r.todo /\ s.modes = r.modes /\ s.results = r.results
      /\ s.pycuda = r.pycuda /\ s.failed = r.failed \cup {Current(p)}
  BY <1>0, <1>1 DEF Processes
<1>3. s \in Processes
  <2> DEFINE fs == r.failed \cup {Current(p)}
  <2>1. fs \in SUBSET Variants
    BY <1>0, <1>5 DEF Processes
  <2>2. s = [r EXCEPT !.at = "each", !.building = None, !.failed = fs]
    BY <1>1
  <2> HIDE DEF fs, r, s
  <2> QED
    BY <1>0, <2>1, <2>2 DEF Processes, Places
<1> HIDE DEF r, s
<1>6. HandOf(s, Requested) /\ ExitOf(s) /\ RowsOf(s, Lanes, Tag)
  BY <1>1, <1>2, <1>4 DEF HandOf, ExitOf, RowsOf, Running
<1>8. Isolated => CleanOf(s, Lanes)
  BY <1>1, <1>2, <1>4 DEF CleanOf
<1>9. p = "worker" => SingleOf(s)
  <2>1. r.modes = <<>> => Len(r.modes) <= 1
    OBVIOUS
  <2> QED
    BY <1>1, <1>2, <1>4, <2>1 DEF SingleOf, Running
<1>10. \A v \in AheadOf(r) \cup r.failed : v \in AheadOf(s) \/ v \in s.failed
  BY <1>1, <1>2, <1>5 DEF AheadOf, Running
<1> QED
  BY <1>1, <1>2, <1>3, <1>6, <1>8, <1>9, <1>10
     DEF Onward, Running, r, s

\* A killed process leaves nothing half said.
LEMMA KillStep ==
    ASSUME Inv, NEW p \in Procs, Kill(p)
    PROVE  Onward(p, proc'[p])
<1> DEFINE r == proc[p]
           s == proc'[p]
<1>0. r \in Processes /\ ProcInv(p)
  BY InvFacts
<1>1. r.at \notin {"off", "wait"} /\ s = [r EXCEPT !.at = "killed", !.building = None]
  BY InvFacts DEF Kill, TypeOK
<1>2. /\ s.at = "killed" /\ s.todo = r.todo /\ s.modes = r.modes
      /\ s.results = r.results /\ s.pycuda = r.pycuda
  BY <1>0, <1>1 DEF Processes
<1>3. s \in Processes
  BY <1>0, <1>1 DEF Processes, Places, Over
<1>4. /\ Isolated => CleanOf(r, Lanes)
      /\ p = "worker" => SingleOf(r)
  BY <1>0 DEF ProcInv
<1> HIDE DEF r, s
<1>5. HandOf(s, Requested) /\ ExitOf(s) /\ RowsOf(s, Lanes, Tag)
  BY <1>2 DEF HandOf, ExitOf, RowsOf, Running
<1>6. Isolated => CleanOf(s, Lanes)
  BY <1>2, <1>4 DEF CleanOf, Over
<1>7. p = "worker" => SingleOf(s)
  BY <1>2, <1>4 DEF SingleOf, Running
<1> QED
  BY <1>1, <1>2, <1>3, <1>5, <1>6, <1>7
     DEF Onward, Running, r, s

-----------------------------------------------------------------------------
(* Steps of the command.                                                   *)

\* A step of one process, other than to spawn a worker.
Alone(p) == Kill(p) \/ (Work(p) /\ ~(NextVariant(p) /\ Orchestrate(p)))

\* It moves only its own record, and passes over what was asked for.
LEMMA AloneFacts ==
    ASSUME Inv, NEW p \in Procs, Alone(p)
    PROVE  /\ Onward(p, proc'[p])
           /\ \A q \in Procs \ {p} : proc'[q] = proc[q]
           /\ args' = args
           /\ gaveUp \subseteq gaveUp' /\ gaveUp' \subseteq gaveUp \cup Requested
           /\ proc[p].at \notin {"off", "wait"} \cup Over
<1>1. Onward(p, proc'[p])
  BY NextModelStep, LocateStep, PassOverStep, GetVariantsStep, FinishStep,
     NextVariantStep, ExportStep, RenameStep, LaneStep, ReportStep, RaiseStep,
     KillStep, Zenon DEF Alone, Work
<1>2. \A q \in Procs \ {p} : proc'[q] = proc[q]
  <2>0. proc \in [Procs -> Processes]
    BY InvFacts DEF TypeOK
  <2>1. CASE NextVariant(p) /\ ~Orchestrate(p)
    BY <2>0, <2>1 DEF NextVariant
  <2>2. CASE Kill(p) \/ NextModel(p) \/ Locate(p) \/ GetVariants(p) \/ Finish(p) \/ LastVariant(p)
    BY <2>0, <2>2 DEF Kill, NextModel, Locate, GetVariants, Finish, LastVariant
  <2>3. CASE NotFound(p) \/ VariantsFail(p)
    BY <2>0, <2>3 DEF NotFound, VariantsFail, PassOver
  <2>4. CASE SkipExport(p) \/ Export(p) \/ ExportEnds(p) \/ Rename(p)
             \/ WriteTable(p) \/ WriteJson(p)
    BY <2>0, <2>4 DEF SkipExport, Export, ExportEnds, Rename, WriteTable, WriteJson
  <2>5. CASE LaneRuns(p)
    BY <2>0, <2>5 DEF LaneRuns
  <2>6. CASE LaneFails(p)
    BY <2>0, <2>6 DEF LaneFails
  <2>7. CASE RunRaises(p)
    BY <2>0, <2>7 DEF RunRaises
  <2> QED
    BY <2>1, <2>2, <2>3, <2>4, <2>5, <2>6, <2>7 DEF Alone, Work
<1>3. /\ args' = args
      /\ gaveUp \subseteq gaveUp' /\ gaveUp' \subseteq gaveUp \cup Requested
  BY Zenon DEF Alone, Work, Kill, NextModel, Locate, GetVariants, Finish, LastVariant,
     NotFound, VariantsFail, PassOver, SkipExport, Export, ExportEnds, Rename, WriteTable,
     WriteJson, LaneRuns, LaneFails, RunRaises, NextVariant
<1>4. proc[p].at \notin {"off", "wait"} \cup Over
  BY DEF Over, Alone, Work, Kill, NextModel, Locate, GetVariants, Finish, LastVariant,
     NotFound, VariantsFail, SkipExport, Export, LaneExports, ExportEnds, Rename,
     WriteTable, WriteJson, LaneRuns, LaneFails, Converting, RunRaises, Building,
     NextVariant
<1> QED
  BY <1>1, <1>2, <1>3, <1>4

\* main spawns a worker for a variant, which it then owes.
LEMMA SpawnFacts ==
    ASSUME Inv, NEW p \in Procs, NextVariant(p), Orchestrate(p)
    PROVE  LET r == proc["main"]
               s == proc'["main"]
               w == proc'["worker"]
           IN  /\ p = "main" /\ Isolating
               /\ w = Fresh(<<r.model>>) /\ w \in Processes
               /\ r.at = "each" /\ r.modes # <<>> /\ r.model \in ToSet(Models)
               /\ s \in Processes
               /\ s.at = "wait" /\ s.model = r.model /\ s.mode = Head(r.modes)
               /\ s.todo = r.todo /\ s.modes = Tail(r.modes) /\ s.results = <<>>
               /\ s.pycuda = r.pycuda /\ s.failed = r.failed
               /\ ToSet(r.modes) = {Head(r.modes)} \cup ToSet(Tail(r.modes))
<1>1. p = "main" /\ Isolating
  <2>1. p # "worker"
    BY OnlyOfWorker DEF NextVariant, Orchestrate
  <2> QED
    BY <2>1 DEF Procs, Orchestrate, Isolating, OnlyMode
<1> DEFINE r == proc["main"]
           me == [r EXCEPT !.mode = Head(r.modes), !.modes = Tail(r.modes), !.results = <<>>]
           m == [me EXCEPT !.at = "wait"]
<1>2. r.at = "each" /\ r.modes # <<>>
  BY <1>1 DEF NextVariant
<1>3. r \in Processes /\ r.modes \in Seq(Modes) /\ r.model \in ToSet(Models)
  BY <1>1, <1>2, InvFacts, ProcFields DEF InHand, HandOf
<1>4. /\ Head(r.modes) \in Modes /\ Tail(r.modes) \in Seq(Modes)
      /\ <<>> \in Seq(Rows)
      /\ ToSet(r.modes) = {Head(r.modes)} \cup ToSet(Tail(r.modes))
  BY <1>2, <1>3, Sequences, HeadOrTail, Zenon
<1>5. proc' = [main |-> m, worker |-> Fresh(<<me.model>>)]
  BY <1>1 DEF NextVariant
<1>6. /\ me.model = r.model /\ me \in Processes
  BY <1>3, <1>4 DEF Processes
<1>7. /\ m.at = "wait" /\ m.model = r.model /\ m.mode = Head(r.modes)
      /\ m.todo = r.todo /\ m.modes = Tail(r.modes) /\ m.results = <<>>
      /\ m.pycuda = r.pycuda /\ m.failed = r.failed
  BY <1>3 DEF Processes
<1>8. m \in Processes
  <2> HIDE DEF me
  <2> QED
    BY <1>6 DEF Processes, Places
<1>9. <<r.model>> \in Seq(ToSet(Models))
  BY <1>3, Sequences, Zenon
<1>10. Fresh(<<r.model>>) \in Processes
  BY <1>9, FreshType
<1>11. proc' = [main |-> m, worker |-> Fresh(<<r.model>>)]
  BY <1>5, <1>6
<1> HIDE DEF m
<1>12. proc'["main"] = m /\ proc'["worker"] = Fresh(<<r.model>>)
  BY <1>11
<1> QED
  BY <1>1, <1>2, <1>3, <1>4, <1>7, <1>8, <1>10, <1>12

\* main takes note of how the worker ended.
LEMMA ReapFacts ==
    ASSUME Inv, Reap
    PROVE  LET r == proc["main"]
               s == proc'["main"]
           IN  /\ r.at = "wait" /\ proc["worker"].at \in Over
               /\ proc'["worker"] = Off
               /\ s \in Processes
               /\ s.at = "each" /\ s.model = r.model
               /\ s.todo = r.todo /\ s.modes = r.modes /\ s.results = r.results
               /\ s.pycuda = r.pycuda
               /\ s.failed = IF proc["worker"].at = "exit0" THEN r.failed
                             ELSE r.failed \cup {Current("main")}
               /\ Current("main") \in Requested
<1> DEFINE r == proc["main"]
           fs == IF proc["worker"].at = "exit0" THEN r.failed
                 ELSE r.failed \cup {Current("main")}
           m == [r EXCEPT !.at = "each", !.failed = fs]
<1>1. /\ r.at = "wait" /\ proc["worker"].at \in Over
      /\ proc' = [main |-> m, worker |-> Off]
  BY DEF Reap
<1>2. r \in Processes /\ Current("main") \in Requested
  BY <1>1, InvFacts DEF Procs, InHand, HandOf, Current
<1>3. fs \in SUBSET Variants
  BY <1>2, RequestedType DEF Processes
<1> HIDE DEF fs
<1>4. /\ m \in Processes /\ m.at = "each" /\ m.model = r.model /\ m.todo = r.todo
      /\ m.modes = r.modes /\ m.results = r.results /\ m.pycuda = r.pycuda
      /\ m.failed = fs
  BY <1>2, <1>3 DEF Processes, Places
<1> HIDE DEF m
<1>5. proc'["main"] = m /\ proc'["worker"] = Off
  BY <1>1
<1> QED
  BY <1>1, <1>2, <1>4, <1>5 DEF fs

\* The arguments do not change, nor what follows from them.
LEMMA SameArgs ==
    ASSUME args' = args
    PROVE  /\ Requested' = Requested /\ Lanes' = Lanes /\ Tag' = Tag
           /\ Isolated' = Isolated /\ Isolating' = Isolating
  BY DEF Requested, Lanes, Tag, Isolated, Isolating

\* What a step is.
LEMMA StepCases ==
    ASSUME Next
    PROVE  \/ Reap
           \/ \E p \in Procs : Alone(p)
           \/ \E p \in Procs : NextVariant(p) /\ Orchestrate(p)
  BY DEF Next, Step, Alone

\* Every step keeps the types.
LEMMA StepType ==
    ASSUME Inv, Next
    PROVE  TypeOK' /\ args' = args
<1>1. TypeOK /\ \A p \in Procs : InHand(p) /\ RowsOf(proc[p], Lanes, Tag)
  BY InvFacts DEF Procs, ProcInv
<1>2. TypeOK'
  BY <1>1, WorkType, EndType DEF Next, Step
<1>3. args' = args
  BY StepCases, AloneFacts DEF Reap, NextVariant
<1> QED
  BY <1>2, <1>3

\* A report once written stays.
LEMMA DocsStep ==
    ASSUME Inv, Next
    PROVE  \/ docs' = docs
           \/ \E p \in Procs :
                 /\ WriteJson(p)
                 /\ docs' = Append(docs, [variant |-> Current(p), configs |-> proc[p].results])
<1>1. CASE Reap
  BY <1>1 DEF Reap
<1>2. ASSUME NEW p \in Procs, Kill(p) \/ Work(p)
      PROVE  docs' = docs \/ WriteJson(p)
  BY <1>2, Zenon DEF Work, Kill, NextModel, Locate, GetVariants, Finish, LastVariant,
     NotFound, VariantsFail, SkipExport, Export, ExportEnds, Rename, WriteTable,
     LaneRuns, LaneFails, RunRaises, NextVariant
<1> QED
  BY <1>1, <1>2 DEF Next, Step, WriteJson

\* The reports stay faithful, and what is done stays done.
LEMMA DocsKept ==
    ASSUME Inv, Next
    PROVE  DocsInv' /\ Done \subseteq Done'
<1>0. docs \in Seq([variant : Variants, configs : Seq(Rows)]) /\ DocsInv
      /\ Len(docs) \in Nat
  BY DEF Inv, TypeOK
<1>1. Requested' = Requested /\ Lanes' = Lanes /\ Tag' = Tag
  BY StepType, SameArgs
<1>2. CASE docs' = docs
  BY <1>0, <1>1, <1>2 DEF DocsInv, Done
<1>3. ASSUME NEW p \in Procs, WriteJson(p),
             docs' = Append(docs, [variant |-> Current(p), configs |-> proc[p].results])
      PROVE  DocsInv' /\ Done \subseteq Done'
  <2> DEFINE doc == [variant |-> Current(p), configs |-> proc[p].results]
  <2>1. /\ Len(docs') = Len(docs) + 1 /\ docs'[Len(docs) + 1] = doc
        /\ \A k \in 1 .. Len(docs) : docs'[k] = docs[k]
    BY <1>0, <1>3
  <2>2. HandOf(proc[p], Requested) /\ RowsOf(proc[p], Lanes, Tag) /\ proc[p].at = "json"
    BY <1>3, InvFacts DEF ProcInv, WriteJson
  <2>3. /\ doc.variant \in Requested /\ Len(doc.configs) = Len(Lanes)
        /\ \A j \in 1 .. Len(Lanes) : OwnRow(doc.configs[j], Lanes[j], doc.variant, Tag)
    BY <2>2 DEF HandOf, RowsOf, Running, Current
  <2> HIDE DEF doc
  <2>4. \A k \in 1 .. Len(docs') : k \in 1 .. Len(docs) \/ docs'[k] = doc
    BY <1>0, <2>1
  <2>5. DocsInv'
    BY <1>0, <1>1, <2>1, <2>3, <2>4 DEF DocsInv
  <2>6. \A k \in 1 .. Len(docs) : k \in 1 .. Len(docs')
    BY <1>0, <2>1
  <2> QED
    BY <2>1, <2>5, <2>6 DEF Done
<1> QED
  BY <1>2, <1>3, DocsStep

\* Who writes files.
LEMMA DiskStep ==
    ASSUME Inv, Next
    PROVE  \/ disk' = disk
           \/ \E p \in Procs :
                 /\ Export(p) \/ ExportEnds(p) \/ Rename(p)
                 /\ Alone(p) /\ proc[p].at \in Running
<1>1. CASE Reap
  BY <1>1 DEF Reap
<1>2. ASSUME NEW p \in Procs, Kill(p) \/ Work(p)
      PROVE  disk' = disk \/ Export(p) \/ ExportEnds(p) \/ Rename(p)
  BY <1>2, Zenon DEF Work, Kill, NextModel, Locate, GetVariants, Finish, LastVariant,
     NotFound, VariantsFail, SkipExport, WriteTable, WriteJson,
     LaneRuns, LaneFails, RunRaises, NextVariant
<1>3. ASSUME NEW p \in Procs, Export(p) \/ ExportEnds(p) \/ Rename(p)
      PROVE  Alone(p) /\ proc[p].at \in Running
  <2>1. proc[p].at \in Running
    BY <1>3 DEF Export, LaneExports, ExportEnds, Rename, Running
  <2>2. ~NextVariant(p)
    BY <2>1 DEF NextVariant, Running
  <2> QED
    BY <1>3, <2>1, <2>2 DEF Alone, Work
<1> QED
  BY <1>1, <1>2, <1>3 DEF Next, Step

\* What the three of them make of the files.
LEMMA DiskFacts ==
    ASSUME Inv, NEW p \in Procs, Export(p) \/ ExportEnds(p) \/ Rename(p)
    PROVE  /\ DiskInv'
           /\ ExportEnds(p) =>
                 \A f \in disk' : f.name = ScratchOf(proc[p].building) =>
                     f.graph = proc[p].building /\ f.whole
<1>0. DiskInv /\ StagedInv /\ disk \subseteq Files
  BY DEF Inv, TypeOK
<1>1. \A g, w : LET file == [name |-> ScratchOf(g), graph |-> g, whole |-> w]
               IN  file.name = ScratchOf(file.graph)
  OBVIOUS
<1>2. CASE Export(p)
  BY <1>0, <1>1, <1>2 DEF Export, ExportEnds, Written, DiskInv
<1>3. CASE ExportEnds(p)
  BY <1>0, <1>1, <1>3 DEF ExportEnds, Written, DiskInv
<1>4. CASE Rename(p)
  <2> DEFINE g == proc[p].building
             moved == {[h EXCEPT !.name = NameOf(g)] : h \in {h \in disk : h.name = ScratchOf(g)}}
  <2>1. disk' \subseteq disk \cup moved
    BY <1>4 DEF Rename
  <2>2. \A h \in disk : h.name = ScratchOf(g) => h.graph = g /\ h.whole
    BY <1>0, <1>4 DEF Rename, StagedInv
  <2>3. ASSUME NEW f \in moved PROVE f.name = NameOf(f.graph) /\ f.whole
    <3>1. PICK h \in disk : h.name = ScratchOf(g) /\ f = [h EXCEPT !.name = NameOf(g)]
      OBVIOUS
    <3>2. f.name = NameOf(g) /\ f.graph = h.graph /\ f.whole = h.whole
      BY <1>0, <3>1 DEF Files
    <3> QED
      BY <2>2, <3>1, <3>2
  <2> HIDE DEF moved
  <2>4. DiskInv'
    BY <1>0, <2>1, <2>3 DEF DiskInv
  <2> QED
    BY <1>4, <2>4 DEF Rename, ExportEnds
<1> QED
  BY <1>2, <1>3, <1>4

\* A complete graph gets the name of what asked for it.
LEMMA DiskKept ==
    ASSUME Inv, Next
    PROVE  DiskInv' /\ StagedInv'
<1>0. DiskInv /\ StagedInv /\ Roles
  BY DEF Inv
<1>1. DiskInv'
  BY <1>0, DiskStep, DiskFacts DEF DiskInv
<1>2. ASSUME NEW q \in Procs, proc'[q].at = "rename"
      PROVE  ExportEnds(q) \/ (proc'[q] = proc[q] /\ (disk' = disk \/ ExportEnds(q)))
  <2>1. CASE Reap
    <3>1. proc'["main"].at = "each" /\ proc'["worker"] = Off
      BY <2>1, ReapFacts
    <3> QED
      BY <1>2, <3>1, OffAt DEF Procs
  <2>2. ASSUME NEW p \in Procs, NextVariant(p), Orchestrate(p) PROVE FALSE
    <3>1. /\ proc'["main"].at = "wait"
          /\ proc'["worker"] = Fresh(<<proc["main"].model>>)
      BY <2>2, SpawnFacts
    <3>2. \A ms : Fresh(ms).at = "models"
      BY DEF Fresh
    <3> QED
      BY <1>2, <3>1, <3>2 DEF Procs
  <2>3. ASSUME NEW p \in Procs, Alone(p), ~ExportEnds(q)
        PROVE  proc'[q] = proc[q] /\ disk' = disk
    <3>1. Onward(p, proc'[p]) /\ \A o \in Procs \ {p} : proc'[o] = proc[o]
      BY <2>3, AloneFacts
    <3>2. p # q
      BY <1>2, <2>3, <3>1 DEF Onward
    <3>3. proc'[q] = proc[q] /\ proc[q].at = "rename"
      BY <1>2, <3>1, <3>2
    <3>4. ASSUME NEW o \in Procs, Alone(o), proc[o].at \in Running,
                 Export(o) \/ ExportEnds(o) \/ Rename(o)
          PROVE  FALSE
      <4>1. CASE o = q
        <5>1. Rename(q)
          BY <3>3, <3>4, <4>1 DEF Export, LaneExports, ExportEnds
        <5>2. proc'[q].at = "lanes"
          BY <5>1, InvFacts DEF Rename, TypeOK, Processes
        <5> QED
          BY <1>2, <5>2
      <4>2. CASE o # q
        BY <1>0, <3>3, <3>4, <4>2, OffAt DEF Roles, Running, Procs
      <4> QED
        BY <4>1, <4>2
    <3> QED
      BY <3>3, <3>4, DiskStep
  <2> QED
    BY <2>1, <2>2, <2>3, StepCases
<1>3. ASSUME NEW q \in Procs, ExportEnds(q) PROVE proc'[q].building = proc[q].building
  BY <1>3, InvFacts DEF ExportEnds, TypeOK, Processes
<1>4. StagedInv'
  BY <1>0, <1>2, <1>3, DiskFacts DEF StagedInv
<1> QED
  BY <1>1, <1>4

\* There is a worker exactly while main waits.
LEMMA RolesKept ==
    ASSUME Inv, Next
    PROVE  Roles'
<1>0. Roles /\ Isolated' = Isolated /\ Isolating' = Isolating
  BY StepType, SameArgs DEF Inv
<1>1. CASE Reap
  <2>1. proc'["main"].at = "each" /\ proc'["worker"] = Off
        /\ proc'["main"].pycuda = proc["main"].pycuda
    BY <1>1, ReapFacts
  <2> QED
    BY <1>0, <2>1, OffAt DEF Roles, Running
<1>2. ASSUME NEW p \in Procs, NextVariant(p), Orchestrate(p) PROVE Roles'
  <2>1. /\ proc'["main"].at = "wait" /\ Isolating
        /\ proc'["main"].pycuda = proc["main"].pycuda
        /\ proc'["worker"] = Fresh(<<proc["main"].model>>)
    BY <1>2, SpawnFacts
  <2>2. \A ms : Fresh(ms).at = "models"
    BY DEF Fresh
  <2> QED
    BY <1>0, <2>1, <2>2 DEF Roles, Running
<1>3. CASE Alone("main")
  <2>1. /\ Onward("main", proc'["main"]) /\ proc'["worker"] = proc["worker"]
        /\ proc["main"].at \notin {"off", "wait"}
    BY <1>3, AloneFacts DEF Procs
  <2>2. Isolating => Orchestrate("main")
    BY DEF Isolating, Orchestrate, OnlyMode
  <2> QED
    BY <1>0, <2>1, <2>2, OffAt DEF Roles, Onward
<1>4. CASE Alone("worker")
  <2>1. /\ Onward("worker", proc'["worker"]) /\ proc'["main"] = proc["main"]
        /\ proc["worker"].at \notin {"off", "wait"}
    BY <1>4, AloneFacts DEF Procs
  <2> QED
    BY <1>0, <2>1, OffAt DEF Roles, Onward
<1> QED
  BY <1>1, <1>2, <1>3, <1>4, StepCases DEF Procs

\* What a process still owes, or has accounted for.
LEMMA SettlesKept ==
    ASSUME Inv, NEW p \in Procs, Alone(p), NEW q \in Procs
    PROVE  Settles(q)'
<1>0. /\ Onward(p, proc'[p]) /\ \A o \in Procs \ {p} : proc'[o] = proc[o]
      /\ gaveUp \subseteq gaveUp' /\ proc[p].at \notin {"off", "wait"} \cup Over
      /\ Settles(q) /\ Next
  <2>1. Next
    BY DEF Alone, Next, Step
  <2> QED
    BY <2>1, AloneFacts, InvFacts DEF ProcInv
<1>1. Done \subseteq Done' /\ Requested' = Requested
  BY <1>0, DocsKept, StepType, SameArgs
<1>2. Owed(q)' = Owed(q)
  <2>1. CASE q = "main"
    BY <1>1, <2>1 DEF Owed
  <2>2. CASE q = "worker" /\ p = "worker"
    BY <1>0, <2>2 DEF Owed, Procs, Current
  <2>3. CASE q = "worker" /\ p = "main"
    BY <1>0, <2>3 DEF Owed, Onward
  <2> QED
    BY <2>1, <2>2, <2>3 DEF Procs
<1>3. CASE q # p
  <2>1. proc'[q] = proc[q]
    BY <1>0, <1>3
  <2> QED
    BY <1>0, <1>1, <1>2, <2>1 DEF Settles
<1>4. CASE q = p
  <2>1. CASE proc[p].at \in {"crashed", "killed"}
    BY <1>0, <2>1 DEF Over
  <2>2. CASE proc[p].at \notin {"crashed", "killed"}
    <3>1. Owed(p) \subseteq Done \cup proc[p].failed \cup gaveUp \cup AheadOf(proc[p])
      BY <1>0, <1>4, <2>2 DEF Settles
    <3>2. CASE proc'[p].at \in {"crashed", "killed"}
      BY <1>4, <3>2 DEF Settles
    <3>3. CASE proc'[p].at \notin {"crashed", "killed"}
      <4>1. \A v \in Owed(p) : v \in Done' \cup proc'[p].failed \cup gaveUp' \cup AheadOf(proc'[p])
        BY <1>0, <1>1, <3>1, <3>3 DEF Onward
      <4> QED
        BY <1>2, <1>4, <4>1 DEF Settles
    <3> QED
      BY <3>2, <3>3
  <2> QED
    BY <2>1, <2>2
<1> QED
  BY <1>3, <1>4

\* Every step keeps what is said of each process.
LEMMA ProcInvKept ==
    ASSUME Inv, Next, NEW q \in Procs
    PROVE  ProcInv(q)'
<1>0. /\ Requested' = Requested /\ Lanes' = Lanes /\ Tag' = Tag
      /\ Isolated' = Isolated /\ Done \subseteq Done'
      /\ ProcInv(q) /\ ProcInv("main") /\ ProcInv("worker")
      /\ Requested \subseteq Variants
  BY StepType, SameArgs, DocsKept, InvFacts, RequestedType DEF Procs
<1>1. ASSUME NEW p \in Procs, Alone(p) PROVE ProcInv(q)'
  <2>1. Onward(p, proc'[p]) /\ \A o \in Procs \ {p} : proc'[o] = proc[o]
    BY <1>1, AloneFacts
  <2>2. Settles(q)'
    BY <1>1, SettlesKept
  <2>3. CASE q = p
    BY <1>0, <2>1, <2>2, <2>3 DEF Onward, ProcInv
  <2>4. CASE q # p
    <3>1. proc'[q] = proc[q]
      BY <2>1, <2>4
    <3> QED
      BY <1>0, <2>2, <3>1 DEF ProcInv
  <2> QED
    BY <2>3, <2>4
<1>2. ASSUME NEW p \in Procs, NextVariant(p), Orchestrate(p) PROVE ProcInv(q)'
  <2> DEFINE r == proc["main"]
             s == proc'["main"]
             w == proc'["worker"]
  <2>1. /\ w = Fresh(<<r.model>>)
        /\ r.at = "each" /\ r.modes # <<>> /\ r.model \in ToSet(Models)
        /\ s.at = "wait" /\ s.model = r.model /\ s.mode = Head(r.modes)
        /\ s.todo = r.todo /\ s.modes = Tail(r.modes) /\ s.results = <<>>
        /\ s.pycuda = r.pycuda /\ s.failed = r.failed
        /\ ToSet(r.modes) = {Head(r.modes)} \cup ToSet(Tail(r.modes))
    BY <1>2, SpawnFacts
  <2>2. UNCHANGED <<docs, gaveUp>>
    BY <1>2 DEF NextVariant
  <2>3. HandOf(r, Requested) /\ ExitOf(r) /\ Settles("main")
    BY <1>0 DEF ProcInv
  <2>4. Isolated => CleanOf(r, Lanes)
    BY <1>0 DEF ProcInv
  <2>5. /\ w.at = "models" /\ w.todo = <<r.model>> /\ w.modes = <<>>
        /\ w.results = <<>> /\ w.pycuda = FALSE /\ w.failed = {}
    <3>1. /\ Fresh(<<r.model>>).at = "models" /\ Fresh(<<r.model>>).todo = <<r.model>>
          /\ Fresh(<<r.model>>).modes = <<>> /\ Fresh(<<r.model>>).results = <<>>
          /\ Fresh(<<r.model>>).pycuda = FALSE /\ Fresh(<<r.model>>).failed = {}
      BY FreshFields
    <3>2. w = Fresh(<<r.model>>)
      BY <2>1
    <3> QED
      BY <3>1, <3>2
  <2>6. Owed("main")' = Requested /\ Owed("worker")' = {Variant(r.model, Head(r.modes))}
    BY <1>0, <2>1 DEF Owed, Current
  <2>7. Variant(r.model, Head(r.modes)) \in Requested
    BY <2>1, <2>3 DEF HandOf
  <2> HIDE DEF r, s, w
  <2>8. HandOf(s, Requested) /\ RowsOf(s, Lanes, Tag) /\ ExitOf(s)
    BY <2>1, <2>3, <2>7 DEF HandOf, RowsOf, ExitOf, Running
  <2>9. Isolated => CleanOf(s, Lanes)
    BY <2>1, <2>4 DEF CleanOf
  <2>10. Settles("main")'
    <3>1. ASSUME NEW v \in AheadOf(r) PROVE v \in AheadOf(s)
      <4>1. /\ v \in Variants
            /\ \/ v.model \in ToSet(r.todo)
               \/ v.model = r.model /\ v.mode \in ToSet(r.modes)
        BY <2>1 DEF AheadOf, Running
      <4>2. v = Variant(v.model, v.mode)
        BY <4>1 DEF Variant, Variants
      <4> QED
        BY <2>1, <4>1, <4>2 DEF AheadOf
    <3>2. Requested \subseteq Done \cup r.failed \cup gaveUp \cup AheadOf(r)
      BY <2>1, <2>3 DEF Settles, Owed, r
    <3>3. Done' = Done
      BY <2>2 DEF Done
    <3>4. Requested \subseteq Done' \cup s.failed \cup gaveUp' \cup AheadOf(s)
      BY <2>1, <2>2, <3>1, <3>2, <3>3
    <3> QED
      BY <2>6, <3>4 DEF Settles, s
  <2>11. HandOf(w, Requested) /\ RowsOf(w, Lanes, Tag) /\ ExitOf(w) /\ CleanOf(w, Lanes)
    BY <2>5 DEF HandOf, RowsOf, ExitOf, CleanOf, Running
  <2>12. SingleOf(w)
    <3>1. Len(<<r.model>>) = 1
      OBVIOUS
    <3> QED
      BY <2>5, <3>1 DEF SingleOf, Running
  <2>13. Settles("worker")'
    <3>1. r.model \in ToSet(<<r.model>>)
      BY DEF ToSet
    <3>2. \A v \in Variants : v.model = r.model => v \in AheadOf(w)
      BY <2>5, <3>1 DEF AheadOf
    <3>3. Variant(r.model, Head(r.modes)).model = r.model
      BY DEF Variant
    <3> QED
      BY <1>0, <2>6, <2>7, <3>2, <3>3 DEF Settles, w
  <2>14. CASE q = "main"
    BY <1>0, <2>8, <2>9, <2>10, <2>14 DEF ProcInv, s
  <2>15. CASE q = "worker"
    BY <1>0, <2>11, <2>12, <2>13, <2>15 DEF ProcInv, w
  <2> QED
    BY <2>14, <2>15 DEF Procs
<1>3. CASE Reap
  <2> DEFINE r == proc["main"]
             s == proc'["main"]
             w == proc["worker"]
  <2>1. /\ r.at = "wait" /\ w.at \in Over
        /\ proc'["worker"] = Off
        /\ s.at = "each" /\ s.model = r.model
        /\ s.todo = r.todo /\ s.modes = r.modes /\ s.results = r.results
        /\ s.pycuda = r.pycuda
        /\ s.failed = IF w.at = "exit0" THEN r.failed
                      ELSE r.failed \cup {Current("main")}
    BY <1>3, ReapFacts
  <2>2. UNCHANGED <<docs, gaveUp>>
    BY <1>3 DEF Reap
  <2>3. /\ HandOf(r, Requested) /\ Settles("main") /\ Settles("worker")
        /\ ExitOf(w)
    BY <1>0 DEF ProcInv
  <2>4. Isolated => CleanOf(r, Lanes)
    BY <1>0 DEF ProcInv
  <2>5. Current("main") = Variant(r.model, r.mode) /\ Done' = Done
    BY <2>2 DEF Current, Done
  <2>6. Current("main") \in Done \cup gaveUp \cup s.failed
    <3>1. CASE w.at = "exit0"
      <4>1. Current("main") \in Done \cup w.failed \cup gaveUp \cup AheadOf(w)
        BY <2>1, <2>3, <3>1 DEF Settles, Owed
      <4>2. w.todo = <<>> /\ w.failed = {}
        BY <2>3, <3>1 DEF ExitOf
      <4>3. ToSet(<<>>) = {}
        BY DEF ToSet
      <4>4. AheadOf(w) = {}
        BY <3>1, <4>2, <4>3 DEF AheadOf, Running
      <4> QED
        BY <4>1, <4>2, <4>4
    <3>2. CASE w.at # "exit0"
      BY <2>1, <3>2
    <3> QED
      BY <3>1, <3>2
  <2> HIDE DEF r, s, w
  <2>7. HandOf(s, Requested) /\ RowsOf(s, Lanes, Tag) /\ ExitOf(s)
    BY <2>1, <2>3 DEF HandOf, RowsOf, ExitOf, Running
  <2>8. Isolated => CleanOf(s, Lanes)
    BY <2>1, <2>4 DEF CleanOf, Over
  <2>9. Settles("main")'
    <3>1. Owed("main")' = Requested
      BY <1>0 DEF Owed
    <3>2. Requested \subseteq Done \cup r.failed \cup gaveUp \cup AheadOf(r)
      BY <2>1, <2>3 DEF Settles, Owed, r
    <3>3. \A v \in AheadOf(r) : v \in AheadOf(s) \/ v = Current("main")
      BY <2>1, <2>5 DEF AheadOf, Running
    <3>4. r.failed \subseteq s.failed
      BY <2>1
    <3>5. Requested \subseteq Done' \cup s.failed \cup gaveUp' \cup AheadOf(s)
      BY <2>2, <2>5, <2>6, <3>2, <3>3, <3>4
    <3> QED
      BY <3>1, <3>5 DEF Settles, s
  <2>10. /\ HandOf(Off, Requested) /\ RowsOf(Off, Lanes, Tag) /\ ExitOf(Off)
         /\ CleanOf(Off, Lanes) /\ SingleOf(Off)
    BY OffAt DEF HandOf, RowsOf, ExitOf, CleanOf, SingleOf, Running
  <2>11. Settles("worker")'
    BY <2>1, OffAt DEF Settles
  <2>12. CASE q = "main"
    BY <1>0, <2>7, <2>8, <2>9, <2>12 DEF ProcInv, s
  <2>13. CASE q = "worker"
    BY <1>0, <2>1, <2>10, <2>11, <2>13 DEF ProcInv
  <2> QED
    BY <2>12, <2>13 DEF Procs
<1> QED
  BY <1>1, <1>2, <1>3, StepCases

-----------------------------------------------------------------------------
(* What failed, and what it cost.                                          *)

\* A variant is marked as failed by an exception; under isolation that, and
\* any other end before time, is a fault.
LEMMA AloneCost ==
    ASSUME Inv, NEW p \in Procs, Alone(p)
    PROVE  /\ faults \in Nat
           /\ \/ proc'[p].failed = proc[p].failed
              \/ /\ Current(p) \in Requested
                 /\ proc'[p].failed = proc[p].failed \cup {Current(p)}
           /\ Isolated =>
                 \/ /\ proc'[p].failed = proc[p].failed
                    /\ proc'[p].at \notin {"crashed", "killed"}
                    /\ Passed' = Passed
                    /\ faults' \in {faults, faults + 1}
                 \/ /\ faults' = faults + 1
                    /\ Passed' = Passed
                 \/ /\ faults' = faults + 1
                    /\ proc'[p].failed = proc[p].failed
                    /\ proc'[p].at \notin {"crashed", "killed"}
                    /\ Passed' \in {Passed, Passed \cup {proc[p].model}}
<1> DEFINE r == proc[p]
           s == proc'[p]
<1>0. /\ r \in Processes /\ proc \in [Procs -> Processes] /\ faults \in Nat
      /\ HandOf(r, Requested)
      /\ Isolated => CleanOf(r, Lanes)
  BY InvFacts DEF TypeOK, ProcInv
<1>1. /\ s.failed = r.failed \/ RunRaises(p)
      /\ s.at \in {"crashed", "killed"} => NotFound(p) \/ Kill(p)
  BY AloneFacts DEF Onward
<1>2. CASE (NotFound(p) \/ VariantsFail(p) \/ Kill(p)) /\ ~RunRaises(p)
  <2>1. faults' = faults + 1 /\ s.failed = r.failed
    BY <1>1, <1>2 DEF NotFound, VariantsFail, Kill, Fault
  <2>2. CASE gaveUp' = gaveUp
    BY <1>0, <2>1, <2>2 DEF Passed
  <2>3. CASE gaveUp' # gaveUp
    <3>1. PassOver(p)
      BY <1>2, <2>3 DEF NotFound, VariantsFail, Kill
    <3>2. s.at = "models"
      BY <1>0, <3>1 DEF PassOver, Processes
    <3>3. gaveUp' = gaveUp \cup {v \in Requested : v.model = r.model
                                         /\ OnlyMode(p) \in {"any", v.mode}}
      BY <3>1 DEF PassOver
    <3>4. Passed' \in {Passed, Passed \cup {r.model}}
      BY <3>3 DEF Passed
    <3> QED
      BY <1>0, <2>1, <3>2, <3>4
  <2> QED
    BY <2>2, <2>3
<1>8. CASE RunRaises(p)
  <2>1. s.failed = r.failed \cup {Current(p)} /\ r.at \in Running
    <3>1. r.at \in Running
      BY <1>8 DEF RunRaises, Building, Running
    <3> QED
      BY <1>0, <1>8, <3>1 DEF RunRaises, Processes
  <2>2. Current(p) \in Requested
    BY <1>0, <2>1 DEF HandOf, Current
  <2>3. Isolated => faults' = faults + 1
    <3>1. Isolated => ~(r.at = "setup" /\ r.pycuda)
      BY <1>0 DEF CleanOf, Over
    <3> QED
      BY <1>8, <3>1 DEF RunRaises, Fault
  <2>4. Passed' = Passed
    BY <1>8 DEF RunRaises, Passed
  <2> QED
    BY <1>0, <2>1, <2>2, <2>3, <2>4
<1>9. CASE ~(NotFound(p) \/ VariantsFail(p) \/ Kill(p) \/ RunRaises(p))
  <2>1. s.failed = r.failed /\ s.at \notin {"crashed", "killed"}
    BY <1>1, <1>9
  <2>2. (faults' = faults \/ LaneFails(p)) /\ gaveUp' = gaveUp
    BY <1>9, Zenon DEF Alone, Work, NextModel, Locate, GetVariants, Finish, LastVariant,
       SkipExport, Export, ExportEnds, Rename, WriteTable, WriteJson, LaneRuns, LaneFails,
       NextVariant
  <2>3. faults' \in {faults, faults + 1}
    BY <2>2 DEF LaneFails, Fault
  <2> QED
    BY <1>0, <2>1, <2>2, <2>3 DEF Passed
<1> QED
  BY <1>2, <1>8, <1>9

\* Only what was asked for fails or is passed over.
LEMMA FailedKept ==
    ASSUME Inv, Next
    PROVE  gaveUp' \subseteq Requested' /\ proc'["main"].failed \subseteq Requested'
<1>0. /\ Requested' = Requested /\ gaveUp \subseteq Requested
      /\ proc["main"].failed \subseteq Requested
  BY StepType, SameArgs DEF Inv
<1>1. ASSUME NEW p \in Procs, Alone(p)
      PROVE  gaveUp' \subseteq Requested /\ proc'["main"].failed \subseteq Requested
  <2>1. gaveUp' \subseteq Requested /\ \A q \in Procs \ {p} : proc'[q] = proc[q]
    BY <1>0, <1>1, AloneFacts
  <2>2. CASE p = "main"
    BY <1>0, <1>1, <2>1, <2>2, AloneCost
  <2>3. CASE p = "worker"
    BY <1>0, <2>1, <2>3 DEF Procs
  <2> QED
    BY <2>1, <2>2, <2>3 DEF Procs
<1>2. ASSUME NEW p \in Procs, NextVariant(p), Orchestrate(p)
      PROVE  gaveUp' \subseteq Requested /\ proc'["main"].failed \subseteq Requested
  BY <1>0, <1>2, SpawnFacts DEF NextVariant
<1>3. CASE Reap
  <2>1. gaveUp' = gaveUp
    BY <1>3 DEF Reap
  <2> QED
    BY <1>0, <1>3, <2>1, ReapFacts
<1> QED
  BY <1>0, <1>1, <1>2, <1>3, StepCases

\* T is S, or S with one more member.
Grown(S, T) == \E x : T \in {S, S \cup {x}}

\* Either makes a set grow.
LEMMA Growing ==
    /\ \A S, x : Grown(S, S \cup {x})
    /\ \A S : Grown(S, S)
  BY DEF Grown

\* Another member makes a finite set at most one larger.
LEMMA OneMore ==
    ASSUME NEW S, IsFiniteSet(S), NEW T, Grown(S, T)
    PROVE  /\ Cardinality(S) \in Nat /\ Cardinality(T) \in Nat /\ IsFiniteSet(T)
           /\ Cardinality(T) <= Cardinality(S) + (IF T = S THEN 0 ELSE 1)
<1> PICK x : T \in {S, S \cup {x}}
  BY DEF Grown
<1>1. Cardinality(S) \in Nat
  BY FS_CardinalityType
<1>2. /\ IsFiniteSet(S \cup {x})
      /\ Cardinality(S \cup {x}) \in {Cardinality(S), Cardinality(S) + 1}
  BY FS_AddElement
<1> QED
  BY <1>1, <1>2

\* Every failed variant of main, and every model passed over, has cost a fault.
LEMMA FaultsPaidKept ==
    ASSUME Inv, Next
    PROVE  FaultsPaid'
<1> SUFFICES ASSUME Isolated PROVE FaultsPaid'
  BY StepType, SameArgs DEF FaultsPaid
<1> DEFINE f == proc["main"].failed
           h == proc'["main"].failed
           a == Passed
           b == Passed'
           t == IF Trouble THEN 1 ELSE 0
           u == IF Trouble' THEN 1 ELSE 0
<1>0. /\ IsFiniteSet(f) /\ IsFiniteSet(a) /\ faults \in Nat
      /\ Cardinality(f) + Cardinality(a) + t <= faults
      /\ t \in {0, 1} /\ u \in {0, 1}
  BY DEF Inv, TypeOK, FaultsPaid
<1> SUFFICES /\ IsFiniteSet(h) /\ IsFiniteSet(b)
             /\ Cardinality(h) + Cardinality(b) + u <= faults'
  BY DEF FaultsPaid
<1>1. ASSUME Grown(f, h), Grown(a, b), faults' \in Nat,
             (IF h = f THEN 0 ELSE 1) + (IF b = a THEN 0 ELSE 1) + u + faults <= t + faults'
      PROVE  /\ IsFiniteSet(h) /\ IsFiniteSet(b)
             /\ Cardinality(h) + Cardinality(b) + u <= faults'
  <2> DEFINE i == IF h = f THEN 0 ELSE 1
             j == IF b = a THEN 0 ELSE 1
             n == faults'
  <2> HIDE DEF f, h, a, b, t, u
  <2>1. /\ Cardinality(f) \in Nat /\ Cardinality(h) \in Nat /\ IsFiniteSet(h)
        /\ Cardinality(h) <= Cardinality(f) + i
    BY <1>0, <1>1, OneMore
  <2>2. /\ Cardinality(a) \in Nat /\ Cardinality(b) \in Nat /\ IsFiniteSet(b)
        /\ Cardinality(b) <= Cardinality(a) + j
    BY <1>0, <1>1, OneMore
  <2>3. i \in {0, 1} /\ j \in {0, 1} /\ n \in Nat /\ i + j + u + faults <= t + n
    BY <1>1
  <2> HIDE DEF i, j, n
  <2>4. Cardinality(h) + Cardinality(b) + u <= n
    BY <1>0, <2>1, <2>2, <2>3
  <2> QED
    BY <2>1, <2>2, <2>4 DEF n
<1>3. CASE Alone("main")
  <2>1. u = t
    <3>1. Trouble' = Trouble
      BY <1>3, AloneFacts DEF Trouble, Procs
    <3> QED
      BY <3>1
  <2>2. \/ h = f /\ b = a /\ faults' \in {faults, faults + 1}
        \/ /\ faults' = faults + 1 /\ b = a
           /\ h = f \/ h = f \cup {Current("main")}
        \/ /\ faults' = faults + 1 /\ h = f
           /\ b \in {a, a \cup {proc["main"].model}}
    BY <1>3, AloneCost DEF Procs
  <2>3. /\ Grown(f, h) /\ Grown(a, b)
        /\ faults' \in Nat
        /\ (IF h = f THEN 0 ELSE 1) + (IF b = a THEN 0 ELSE 1) + u + faults <= t + faults'
    <3> HIDE DEF f, h, a, b, t, u
    <3>1. Grown(f, h) /\ Grown(a, b)
      BY <2>1, <2>2, Growing
    <3> QED
      BY <1>0, <2>1, <2>2, <3>1
  <2> HIDE DEF f, h, a, b, t, u
  <2> QED
    BY <1>1, <2>3
<1>4. CASE Alone("worker")
  <2>1. h = f
    BY <1>4, AloneFacts DEF Procs
  <2>2. \/ u <= t /\ b = a /\ faults' \in {faults, faults + 1}
        \/ faults' = faults + 1 /\ b = a
        \/ /\ faults' = faults + 1 /\ u <= t
           /\ b \in {a, a \cup {proc["worker"].model}}
    <3>1. \/ /\ proc'["worker"].failed = proc["worker"].failed
             /\ proc'["worker"].at \notin {"crashed", "killed"}
             /\ b = a /\ faults' \in {faults, faults + 1}
          \/ faults' = faults + 1 /\ b = a
          \/ /\ faults' = faults + 1
             /\ proc'["worker"].failed = proc["worker"].failed
             /\ proc'["worker"].at \notin {"crashed", "killed"}
             /\ b \in {a, a \cup {proc["worker"].model}}
      BY <1>4, AloneCost DEF Procs
    <3>2. /\ proc'["worker"].failed = proc["worker"].failed
          /\ proc'["worker"].at \notin {"crashed", "killed"}
          => u <= t
      BY DEF Trouble
    <3> HIDE DEF a, b, t, u
    <3> QED
      BY <3>1, <3>2
  <2>3. /\ Grown(a, b) /\ faults' \in Nat
        /\ (IF h = f THEN 0 ELSE 1) + (IF b = a THEN 0 ELSE 1) + u + faults <= t + faults'
    <3> HIDE DEF f, h, a, b, t, u
    <3>1. Grown(f, h) /\ Grown(a, b)
      BY <2>1, <2>2, Growing
    <3> QED
      BY <1>0, <2>1, <2>2, <3>1
  <2> HIDE DEF f, h, a, b, t, u
  <2> QED
    BY <1>1, <2>1, <2>3, Growing
<1>5. ASSUME NEW p \in Procs, NextVariant(p), Orchestrate(p)
      PROVE  h = f /\ b = a /\ faults' = faults /\ u = 0
  <2>1. h = f /\ proc'["worker"] = Fresh(<<proc["main"].model>>)
    BY <1>5, SpawnFacts
  <2>2. u = 0 /\ faults' = faults /\ b = a
    BY <1>5, <2>1, FreshFields DEF Trouble, NextVariant, Passed
  <2> QED
    BY <2>1, <2>2
<1>6. CASE Reap
  <2>1. u = 0 /\ faults' = faults /\ b = a
    BY <1>6, ReapFacts, OffAt DEF Trouble, Reap, Passed
  <2>2. h = f \/ (h = f \cup {Current("main")} /\ t = 1)
    <3>1. proc["worker"].at \in Over /\ ExitOf(proc["worker"])
      BY <1>6, ReapFacts, InvFacts DEF ProcInv, Procs
    <3>2. proc["worker"].at # "exit0" => Trouble
      BY <3>1 DEF Over, ExitOf, Trouble
    <3> QED
      BY <1>6, <3>2, ReapFacts
  <2>3. /\ Grown(f, h) /\ faults' \in Nat
        /\ (IF h = f THEN 0 ELSE 1) + (IF b = a THEN 0 ELSE 1) + u + faults <= t + faults'
    <3> HIDE DEF f, h, a, b, t, u
    <3>1. Grown(f, h) /\ Grown(a, b)
      BY <2>1, <2>2, Growing
    <3> QED
      BY <1>0, <2>1, <2>2, <3>1
  <2> HIDE DEF f, h, a, b, t, u
  <2> QED
    BY <1>1, <2>1, <2>3, Growing
<1>7. CASE \E p \in Procs : NextVariant(p) /\ Orchestrate(p)
  <2>1. h = f /\ b = a /\ faults' = faults /\ u = 0
    BY <1>5, <1>7
  <2> HIDE DEF f, h, a, b, t, u
  <2> QED
    BY <1>0, <1>1, <2>1, Growing
<1> QED
  BY <1>3, <1>4, <1>6, <1>7, StepCases DEF Procs

\* The command begins in the invariant.
LEMMA InitInv == Init => Inv
<1> SUFFICES ASSUME Init PROVE Inv
  OBVIOUS
<1>1. TypeOK /\ \A p \in Procs : HandOf(proc[p], Requested)
  BY InitType DEF InHand
<1>2. /\ docs = <<>> /\ gaveUp = {} /\ faults = 0
      /\ proc["main"] = Fresh(Models) /\ proc["worker"] = Off
  BY DEF Init
<1>3. Roles
  BY <1>2, FreshFields, OffAt DEF Roles, Running
<1>4. FaultsPaid
  <2>1. ~Trouble
    BY <1>2, OffAt DEF Trouble
  <2>2. IsFiniteSet({}) /\ Cardinality({}) = 0
    BY FS_EmptySet
  <2>3. proc["main"].failed = {} /\ Passed = {}
    BY <1>2, FreshFields DEF Passed
  <2> QED
    BY <1>2, <2>1, <2>2, <2>3 DEF FaultsPaid
<1>5. DiskInv /\ StagedInv
  <2>1. \A g : File(g).name = NameOf(File(g).graph) /\ File(g).whole
    BY DEF File
  <2>2. \A p \in Procs : proc[p].at # "rename"
    <3>1. Fresh(Models).at # "rename" /\ Off.at # "rename"
      BY OffAt DEF Fresh
    <3> QED
      BY <1>2, <3>1 DEF Procs
  <2> QED
    BY <2>1, <2>2 DEF Init, DiskInv, StagedInv
<1>6. DocsInv
  BY <1>2 DEF DocsInv
<1>7. ProcInv("main")
  <2>1. /\ RowsOf(proc["main"], Lanes, Tag) /\ ExitOf(proc["main"])
        /\ CleanOf(proc["main"], Lanes)
    BY <1>2, FreshFields DEF RowsOf, ExitOf, CleanOf
  <2>2. Requested \subseteq AheadOf(proc["main"])
    BY <1>2, FreshFields DEF Requested, AheadOf, Variants
  <2> QED
    BY <1>1, <2>1, <2>2 DEF ProcInv, Settles, Owed, Procs
<1>8. ProcInv("worker")
  <2>1. /\ RowsOf(proc["worker"], Lanes, Tag) /\ ExitOf(proc["worker"])
        /\ CleanOf(proc["worker"], Lanes) /\ SingleOf(proc["worker"])
        /\ Settles("worker")
    BY <1>2, OffAt DEF RowsOf, ExitOf, CleanOf, SingleOf, Settles, Running
  <2> QED
    BY <1>1, <2>1 DEF ProcInv, Procs
<1>9. gaveUp \subseteq Requested /\ proc["main"].failed \subseteq Requested
  BY <1>2, FreshFields
<1> QED
  BY <1>1, <1>3, <1>4, <1>5, <1>6, <1>7, <1>8, <1>9 DEF Inv, Procs

\* And every step keeps it.
LEMMA StepInv == Inv /\ [Next]_vars => Inv'
<1>1. ASSUME Inv, Next PROVE Inv'
  BY <1>1, StepType, RolesKept, ProcInvKept, FailedKept, FaultsPaidKept, DiskKept,
     DocsKept DEF Inv, Procs
<1>2. ASSUME Inv, UNCHANGED vars PROVE Inv'
  <2>1. /\ args' = args /\ pts' = pts /\ disk' = disk /\ docs' = docs
        /\ gaveUp' = gaveUp /\ faults' = faults /\ proc' = proc
    BY <1>2 DEF vars
  <2>2. /\ Requested' = Requested /\ Lanes' = Lanes /\ Tag' = Tag
        /\ Isolated' = Isolated /\ Isolating' = Isolating
    BY <2>1, SameArgs
  <2>3. TypeOK' /\ Roles' /\ FaultsPaid' /\ DiskInv' /\ StagedInv' /\ DocsInv'
    BY <1>2, <2>1, <2>2 DEF Inv, TypeOK, Roles, FaultsPaid, Passed, Trouble, DiskInv,
       StagedInv, DocsInv
  <2>4. ASSUME NEW p \in Procs PROVE ProcInv(p)'
    <3>1. Settles(p)' = Settles(p)
      BY <2>1, <2>2 DEF Settles, Owed, Done, Current
    <3> QED
      BY <1>2, <2>1, <2>2, <3>1 DEF Inv, ProcInv
  <2> QED
    BY <1>2, <2>1, <2>2, <2>3, <2>4 DEF Inv
<1> QED
  BY <1>1, <1>2

-----------------------------------------------------------------------------
(* The results.                                                            *)

\* The inductive invariant of the orchestrator.
THEOREM Invariance == Spec => []Inv
  BY InitInv, StepInv, PTL DEF Spec

\* When main comes to its end every variant asked for has a JSON report, is
\* listed as failed, or was passed over with an error.
THEOREM AccountedSafety == Spec => []Accounted
<1>1. Inv => Accounted
  <2> SUFFICES ASSUME Inv, Ended
               PROVE  Requested = Done \cup proc["main"].failed \cup gaveUp
    BY DEF Accounted
  <2> DEFINE r == proc["main"]
  <2>1. /\ r.at \in {"exit0", "exit1"} /\ ExitOf(r) /\ Settles("main")
        /\ gaveUp \subseteq Requested /\ r.failed \subseteq Requested /\ DocsInv
    BY DEF Ended, Inv, ProcInv, Procs
  <2>2. AheadOf(r) = {}
    <3>1. r.todo = <<>> /\ ToSet(<<>>) = {}
      BY <2>1 DEF ExitOf, ToSet
    <3> QED
      BY <2>1, <3>1 DEF AheadOf, Running
  <2>3. Requested \subseteq Done \cup r.failed \cup gaveUp \cup AheadOf(r)
    BY <2>1 DEF Settles, Owed
  <2>4. Done \subseteq Requested
    BY <2>1 DEF DocsInv, Done
  <2> QED
    BY <2>1, <2>2, <2>3, <2>4
<1> QED
  BY <1>1, Invariance, PTL

\* With isolation each fault costs one variant, or one model passed over.
THEOREM FaultContainedSafety == Spec => []FaultContained
<1>1. Inv /\ Accounted => FaultContained
  <2> SUFFICES ASSUME Inv, Accounted, Ended, Isolated
               PROVE  Cardinality((Requested \ Done) \ gaveUp) + Cardinality(Passed) <= faults
    BY DEF FaultContained, Passed
  <2> DEFINE f == proc["main"].failed
             lost == (Requested \ Done) \ gaveUp
             t == IF Trouble THEN 1 ELSE 0
  <2>1. /\ IsFiniteSet(f) /\ IsFiniteSet(Passed) /\ faults \in Nat
        /\ Cardinality(f) + Cardinality(Passed) + t <= faults /\ t \in {0, 1}
    BY DEF Inv, TypeOK, FaultsPaid
  <2>2. lost \subseteq f
    BY DEF Accounted
  <2> HIDE DEF f, lost, t
  <2>3. /\ Cardinality(lost) <= Cardinality(f) /\ Cardinality(lost) \in Nat
        /\ Cardinality(f) \in Nat /\ Cardinality(Passed) \in Nat
    BY <2>1, <2>2, FS_Subset, FS_CardinalityType
  <2>4. Cardinality(lost) + Cardinality(Passed) <= faults
    BY <2>1, <2>3
  <2> QED
    BY <2>4 DEF lost
<1> QED
  BY <1>1, Invariance, AccountedSafety, PTL

\* A report holds the lanes of the device in order, and a lane that ran did
\* so on the graph of its own variant.
THEOREM ReportFaithfulSafety == Spec => []ReportFaithful
<1>1. Inv => ReportFaithful
  <2> SUFFICES ASSUME Inv, NEW k \in 1 .. Len(docs)
               PROVE  /\ [j \in 1 .. Len(docs[k].configs) |-> docs[k].configs[j].lane] = Lanes
                      /\ \A j \in 1 .. Len(docs[k].configs) :
                            LET r == docs[k].configs[j]
                            IN  r.ok =>
                                  /\ r.on.variant = docs[k].variant
                                  /\ r.on.fmt = FormatOf(r.lane)
                                  /\ r.on.fmt = "engine" => TagOf(r.on.precision) = Tag
    BY DEF ReportFaithful, TagOf, Tag
  <2> DEFINE d == docs[k]
  <2>1. /\ Len(d.configs) = Len(Lanes)
        /\ \A j \in 1 .. Len(Lanes) : OwnRow(d.configs[j], Lanes[j], d.variant, Tag)
    BY DEF Inv, DocsInv
  <2>2. Lanes \in Seq(LaneNames)
    BY LanesType DEF Inv, TypeOK
  <2> HIDE DEF d
  <2>3. Lanes = [j \in 1 .. Len(Lanes) |-> Lanes[j]]
    BY <2>2
  <2>4. [j \in 1 .. Len(d.configs) |-> d.configs[j].lane] = Lanes
    BY <2>1, <2>3 DEF OwnRow
  <2> QED
    BY <2>1, <2>4 DEF OwnRow, d
<1> QED
  BY <1>1, Invariance, PTL

\* Under a name that skips the export there is a complete graph of the
\* variant it is named for.
THEOREM CacheWholeSafety == Spec => []CacheWhole
<1>1. Inv => CacheWhole
  <2> SUFFICES ASSUME Inv, NEW f \in disk, f.name.variant.mode # ""
               PROVE  f.whole /\ f.name = NameOf(f.graph)
    BY DEF CacheWhole
  <2>1. f.graph \in Graphs /\ DiskInv
    BY DEF Inv, TypeOK, Files
  <2>2. f.name # ScratchOf(f.graph)
    BY <2>1, NameType
  <2> QED
    BY <2>1, <2>2 DEF DiskInv
<1> QED
  BY <1>1, Invariance, PTL

\* The process that holds the pycuda context has no PyTorch ahead.
LEMMA PoisonStep ==
    ASSUME Inv, Next, NEW p \in Procs, Isolated, proc[p].pycuda, proc'[p].at # "off"
    PROVE  /\ \A k \in (Len(proc[p].results) + 1) .. Len(proc'[p].results) :
                 proc'[p].results[k].lane \notin OnPyTorch
           /\ proc'[p].at \notin {"setup", "export"}
<1> DEFINE r == proc[p]
           s == proc'[p]
<1>1. Roles /\ CleanOf(r, Lanes)
  BY InvFacts DEF ProcInv
<1>2. p = "worker" /\ r.at \in {"lanes", "json", "each", "models"} \cup Over
      /\ r.modes = <<>>
  BY <1>1 DEF Roles, Procs, CleanOf
<1>3. r \in Processes /\ proc \in [Procs -> Processes] /\ Len(r.results) \in Nat
  <2>1. r.results \in Seq(Rows)
    BY ProcFields, InvFacts
  <2> QED
    BY <2>1, InvFacts DEF TypeOK
<1>4. ~Reap
  BY <1>2, ReapFacts, OffAt
<1>5. \A q \in Procs : ~(NextVariant(q) /\ Orchestrate(q))
  <2> SUFFICES ASSUME NEW q \in Procs, NextVariant(q), Orchestrate(q) PROVE FALSE
    OBVIOUS
  <2>1. proc["main"].at = "each"
    BY SpawnFacts
  <2>2. proc["worker"] = Off
    BY <1>1, <2>1 DEF Roles
  <2> QED
    BY <1>2, <2>2, OffAt
<1>6. CASE s.results = r.results /\ s.at \notin {"setup", "export"}
  BY <1>3, <1>6
<1>7. CASE Alone("main")
  <2>1. s = r
    BY <1>2, <1>7, AloneFacts DEF Procs
  <2> QED
    BY <1>2, <1>6, <2>1 DEF Over
<1>8. CASE LaneRuns(p) \/ LaneFails(p)
  <2>1. /\ s.at = "lanes" /\ Len(s.results) = Len(r.results) + 1
        /\ s.results[Len(r.results) + 1].lane = Lanes[Len(r.results) + 1]
    BY <1>8, LaneStep DEF NextLane
  <2>2. Len(r.results) < Len(Lanes)
    BY <1>2, <1>8 DEF LaneRuns, LaneFails, Converting, Over
  <2>3. Len(r.results) + 1 \in (Len(r.results) + 1) .. Len(Lanes)
    BY <1>3, <2>2, InvFacts, NextLaneType
  <2>4. Lanes[Len(r.results) + 1] \notin OnPyTorch
    BY <1>1, <2>3 DEF CleanOf
  <2>5. \A k \in (Len(r.results) + 1) .. Len(s.results) : k = Len(r.results) + 1
    BY <1>3, <2>1
  <2> QED
    BY <2>1, <2>4, <2>5
<1>9. CASE \/ Kill(p) \/ NextModel(p) \/ Finish(p) \/ LastVariant(p) \/ WriteTable(p)
           \/ WriteJson(p) \/ RunRaises(p)
  <2>1. s.results = r.results /\ s.at \notin {"setup", "export"}
    <3>1. CASE Kill(p)
      BY <1>3, <3>1 DEF Kill, Processes
    <3>2. CASE RunRaises(p)
      BY <1>3, <3>2 DEF RunRaises, Processes
    <3>3. CASE NextModel(p)
      BY <1>3, <3>3 DEF NextModel, Processes
    <3>4. CASE LastVariant(p) \/ WriteTable(p) \/ WriteJson(p)
      BY <1>3, <3>4 DEF LastVariant, WriteTable, WriteJson, Processes
    <3>5. CASE Finish(p)
      <4>1. PICK place \in {"exit0", "exit1"} : s = [r EXCEPT !.at = place]
        BY <1>3, <3>5 DEF Finish
      <4> QED
        BY <1>3, <4>1 DEF Processes
    <3> QED
      BY <1>9, <3>1, <3>2, <3>3, <3>4, <3>5
  <2> QED
    BY <1>6, <2>1
<1>10. CASE Alone("worker") /\ ~(LaneRuns(p) \/ LaneFails(p))
  <2>1. ~(\/ Locate(p) \/ NotFound(p) \/ GetVariants(p) \/ VariantsFail(p)
          \/ SkipExport(p) \/ Export(p) \/ ExportEnds(p) \/ Rename(p) \/ NextVariant(p))
    BY <1>2 DEF Over, Locate, NotFound, GetVariants, VariantsFail, SkipExport, Export,
       ExportEnds, Rename, NextVariant
  <2> QED
    BY <1>2, <1>9, <1>10, <2>1, Zenon DEF Alone, Work
<1> QED
  BY <1>4, <1>5, <1>7, <1>8, <1>10, StepCases DEF Procs

\* With isolation PyTorch never starts, for a lane or an export, in a process
\* that holds the pycuda context.
THEOREM NoPoisonedStartSafety == Spec => NoPoisonedStart
<1>1. Inv /\ [Next]_vars =>
        [\A p \in Procs :
          Isolated /\ proc[p].pycuda /\ proc'[p].at # "off" =>
              /\ \A k \in (Len(proc[p].results) + 1) .. Len(proc'[p].results) :
                    proc'[p].results[k].lane \notin OnPyTorch
              /\ proc'[p].at \notin {"setup", "export"}]_vars
  BY PoisonStep
<1> QED
  BY <1>1, Invariance, PTL DEF Spec, NoPoisonedStart

=============================================================================
