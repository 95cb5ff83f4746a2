------------------------- MODULE ParallelCastFacade -------------------------
(***************************************************************************)
(* The job rewrite pass AddParallelCastFacadeOp                            *)
(* (job_completer/add_parallel_cast_facade_op.cpp).                        *)
(*                                                                         *)
(* The op graph is fixed while the pass runs. Every op produces one blob   *)
(* (its lbi is the op) on its placement with an SBP signature; each of its *)
(* input bns reads the blob of an earlier op and needs it with an SBP of   *)
(* its own. The pass:                                                      *)
(*  1. walks the graph and, for every input whose producer has another     *)
(*     parallel_num or another SBP, files the consumer (node, ibn) under   *)
(*     (lbi, (consumer placement, needed SBP));                            *)
(*  2. for every such group, in HashMap order, adds one ParallelCastFacade *)
(*     op on the consumer placement converting the lbi from the            *)
(*     producer's SBP to the needed one, then, for each consumer of the    *)
(*     group, copies the consumer's op conf FROM THE OP GRAPH, points the  *)
(*     ibn at the facade's output and hands the copy to JobBuilder::MutOps,*)
(*     which replaces the op's conf in the job.                            *)
(***************************************************************************)
EXTENDS Naturals, FiniteSets, Sequences, SequencesExt

CONSTANTS
  NumOps,       \* ops of the graph, 1 .. NumOps in a topological order
  NumIbns,      \* input bns an op may have, 1 .. NumIbns in input_bns() order
  Placements,   \* parallel descs
  ParallelNum,  \* ParallelNum[p]: parallel_num of placement p
  Sbps          \* SBP parallel signatures

ASSUME NumOps \in Nat \ {0} /\ NumIbns \in Nat \ {0}
ASSUME ParallelNum \in [Placements -> Nat \ {0}]

Ops == 1 .. NumOps
Ibns == 1 .. NumIbns

\* An input bn of op o reads the blob of an op before it, wanting SBP sbp.
Edge(from, sbp) == [from |-> from, sbp |-> sbp]
NoEdge == Edge(0, "none")
EdgesInto(o) == {NoEdge} \cup {Edge(j, s) : j \in 1 .. (o - 1), s \in Sbps}

\* The op graph: placement and output SBP of every op, and its inputs.
Graphs ==
  [placement : [Ops -> Placements],
   outSbp : [Ops -> Sbps],
   edge : {e \in [Ops -> [Ibns -> UNION {EdgesInto(o) : o \in Ops}]] :
             \A o \in Ops, i \in Ibns : e[o][i] \in EdgesInto(o)}]

\* Blob names an input bn can hold: an op's output or a facade's "out".
LbiBlob(j) == [kind |-> "lbi", id |-> j]
FacadeBlob(k) == [kind |-> "facade", id |-> k]
NoBlob == [kind |-> "none", id |-> 0]

\* consumer->op().op_conf(): an op's conf as the op graph has it.
OriginalConf(g, o) ==
  [i \in Ibns |-> IF g.edge[o][i] = NoEdge THEN NoBlob ELSE LbiBlob(g.edge[o][i].from)]

\* Lines 18-19: the producer's parallel_num or SBP differs from the input's.
NeedsCast(g, o, i) ==
  LET e == g.edge[o][i] IN
  /\ e # NoEdge
  /\ \/ ParallelNum[g.placement[e.from]] # ParallelNum[g.placement[o]]
     \/ g.outSbp[e.from] # e.sbp

\* Mutant: consumers are filed per input bn, not per (lbi, BlobParallel).
GroupOfWithIbn(g, o, i) ==
  [lbi |-> g.edge[o][i].from, placement |-> g.placement[o], sbp |-> g.edge[o][i].sbp,
   ibn |-> i]

\* The key a consumer is filed under: lbi and BlobParallel.
GroupOf(g, o, i) ==
  [lbi |-> g.edge[o][i].from, placement |-> g.placement[o], sbp |-> g.edge[o][i].sbp]

CastInputs(g) == {<<o, i>> \in Ops \X Ibns : NeedsCast(g, o, i)}

\* lib2consumers: the groups, and a group's consumers in push_back order
\* (ForEachNode visits ops in order, input_bns in order).
Groups(g) == {GroupOf(g, c[1], c[2]) : c \in CastInputs(g)}
ConsumersOf(g, grp) ==
  SetToSortSeq({c \in CastInputs(g) : GroupOf(g, c[1], c[2]) = grp},
               LAMBDA a, b : a[1] < b[1] \/ (a[1] = b[1] /\ a[2] < b[2]))

-----------------------------------------------------------------------------
VARIABLES
  graph,     \* the OpGraph the pass reads
  conf,      \* conf[o][i]: the blob input bn i of op o reads in the job
  facades,   \* facade ops JobBuilder::AddOps has added to the job
  nextId,    \* NewUniqueId's counter
  todo,      \* groups of lib2consumers the outer loop has not visited
  pending,   \* consumers of the current group still to be rewritten
  pc         \* "collect", "cast" or "done"

vars == <<graph, conf, facades, nextId, todo, pending, pc>>

Init ==
  /\ graph \in Graphs
  /\ conf = [o \in Ops |-> OriginalConf(graph, o)]
  /\ facades = {}
  /\ nextId = 0
  /\ todo = {}
  /\ pending = <<>>
  /\ pc = "collect"

\* Lines 14-25: op_graph.ForEachNode builds lbi2producer and lib2consumers.
CollectConsumers ==
  /\ pc = "collect"
  /\ todo' = Groups(graph)
  /\ pc' = "cast"
  /\ UNCHANGED <<graph, conf, facades, nextId, pending>>

\* Mutant: the facade converts to the producer's SBP from the needed one.
CastGroupSwappedSbp ==
  /\ pc = "cast"
  /\ pending = <<>>
  /\ \E grp \in todo :
       /\ facades' = facades \cup
            {[id |-> nextId, in |-> grp.lbi, inSbp |-> grp.sbp,
              outSbp |-> graph.outSbp[grp.lbi], placement |-> grp.placement]}
       /\ pending' = [k \in 1 .. Len(ConsumersOf(graph, grp)) |->
                        <<ConsumersOf(graph, grp)[k], nextId>>]
       /\ todo' = todo \ {grp}
  /\ nextId' = nextId + 1
  /\ UNCHANGED <<graph, conf, pc>>

\* Mutant: the visited group stays in the loop's range.
CastGroupKeepsTodo ==
  /\ pc = "cast"
  /\ pending = <<>>
  /\ \E grp \in todo :
       /\ facades' = facades \cup
            {[id |-> nextId, in |-> grp.lbi, inSbp |-> graph.outSbp[grp.lbi],
              outSbp |-> grp.sbp, placement |-> grp.placement]}
       /\ pending' = [k \in 1 .. Len(ConsumersOf(graph, grp)) |->
                        <<ConsumersOf(graph, grp)[k], nextId>>]
       /\ UNCHANGED todo
  /\ nextId' = nextId + 1
  /\ UNCHANGED <<graph, conf, pc>>

\* Lines 26-45: one group of lib2consumers, in unspecified HashMap order:
\* build the facade op conf and add it on the consumers' placement.
CastGroup ==
  /\ pc = "cast"
  /\ pending = <<>>
  /\ \E grp \in todo :
       /\ facades' = facades \cup
            {[id |-> nextId, in |-> grp.lbi, inSbp |-> graph.outSbp[grp.lbi],
              outSbp |-> grp.sbp, placement |-> grp.placement]}
       /\ pending' = [k \in 1 .. Len(ConsumersOf(graph, grp)) |->
                        <<ConsumersOf(graph, grp)[k], nextId>>]
       /\ todo' = todo \ {grp}
  /\ nextId' = nextId + 1
  /\ UNCHANGED <<graph, conf, pc>>

\* Lines 46-55: copy the consumer's conf from the op graph, point ibn at the
\* facade's output, and MutOps: the copy replaces the op's conf in the job.
MutConsumer ==
  /\ pending # <<>>
  /\ LET o == Head(pending)[1][1]
         i == Head(pending)[1][2]
         k == Head(pending)[2]
     IN conf' = [conf EXCEPT ![o] = [OriginalConf(graph, o) EXCEPT ![i] = FacadeBlob(k)]]
  /\ pending' = Tail(pending)
  /\ UNCHANGED <<graph, facades, nextId, todo, pc>>

\* The loops end and AddParallelCastFacadeOp returns.
Finish ==
  /\ pc = "cast"
  /\ todo = {}
  /\ pending = <<>>
  /\ pc' = "done"
  /\ UNCHANGED <<graph, conf, facades, nextId, todo, pending>>

Next == CollectConsumers \/ CastGroup \/ MutConsumer \/ Finish

Spec == Init /\ [][Next]_vars

-----------------------------------------------------------------------------
\* At most one facade per input bn of the graph.
MaxFacades == NumOps * NumIbns

Blobs == {NoBlob} \cup {LbiBlob(j) : j \in Ops} \cup {FacadeBlob(k) : k \in 0 .. MaxFacades - 1}

FacadeOps == [id : 0 .. MaxFacades - 1, in : Ops, inSbp : Sbps, outSbp : Sbps,
              placement : Placements]

TypeOK ==
  /\ graph \in Graphs
  /\ conf \in [Ops -> [Ibns -> Blobs]]
  /\ facades \subseteq FacadeOps
  /\ nextId \in 0 .. MaxFacades
  /\ pending \in Seq((Ops \X Ibns) \X (0 .. MaxFacades - 1))
  /\ pc \in {"collect", "cast", "done"}

\* The pass never points an input at a wrong blob: at every point of its
\* loops, every input bn reads the blob the op graph gives it, or the output
\* of a facade that takes that very blob from its producer's SBP to the SBP
\* the input needs, on the consumer's placement.
InputsReadCompatibleBlobs ==
  \A o \in Ops, i \in Ibns :
    \/ conf[o][i] = OriginalConf(graph, o)[i]
    \/ \E f \in facades :
         /\ conf[o][i] = FacadeBlob(f.id)
         /\ f.in = graph.edge[o][i].from
         /\ f.inSbp = graph.outSbp[f.in]
         /\ f.outSbp = graph.edge[o][i].sbp
         /\ f.placement = graph.placement[o]

\* When the pass returns, the job holds exactly one facade for each blob,
\* consumer placement and needed SBP that some input required: consumers
\* with the same need share one facade, and no need is left without one.
CastKey(o, i) == <<graph.edge[o][i].from, graph.placement[o], graph.edge[o][i].sbp>>
FacadeKey(f) == <<f.in, f.placement, f.outSbp>>

OneFacadePerNeed ==
  pc = "done" =>
    /\ {FacadeKey(f) : f \in facades} = {CastKey(c[1], c[2]) : c \in CastInputs(graph)}
    /\ Cardinality({FacadeKey(f) : f \in facades}) = Cardinality(facades)

\* The purpose of the pass: when it returns, every input bn whose producer
\* has another parallel_num or SBP reads a facade's output instead.
EveryCastInputRewired ==
  pc = "done" => \A c \in CastInputs(graph) : conf[c[1]][c[2]].kind = "facade"

=============================================================================
