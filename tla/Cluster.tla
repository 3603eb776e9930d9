------------------------------ MODULE Cluster ------------------------------
(* The list of members: LocalNode in memory and the file ClusterInfo, the handlers
   JoinCluster and BroadcastNode that extend both, and UpdateClusterFile, which
   runs on a node that was started from its file (Cluster/cluster.go,
   GRPC/service.go, GRPC/util.go, main.go).

   LocalNode is a pointer.  The objects it may point to on a node: the one made
   when the node was started or joined ("start"), the one of the last update
   ("tick"), and the one JoinCluster loaded for a joiner (named by the joiner).
   All nodes listen on the same port.                                           *)
EXTENDS Integers, Sequences, FiniteSets

CONSTANTS Node, Founder,
          Stranger,       \* nodes that do not have the key
          None, Torn,     \* no file; a file between truncation and write
          MaxRestarts     \* bound

List == [nodes : Seq(Node), key : BOOLEAN]

ASSUME ClusterAssumption ==
    /\ Founder \in Node /\ Stranger \subseteq Node \ {Founder} /\ MaxRestarts \in Nat
    /\ None \notin List /\ Torn \notin List /\ None # Torn
    /\ Node \cap {"start", "tick"} = {}

VARIABLES object, local,  \* the objects of a node, and the one LocalNode points to
          file,           \* the file ClusterInfo
          job, encoded,   \* job[n][j]: the handler of n for j (j = n: the updater),
                          \* and what it is to write
          phase, contact, \* how far a node is with joining, and through whom
          turn, length,   \* BroadCast: its next i, from 1 on, and its length
          updating,       \* UpdateClusterFile runs
          restarts,       \* how many restarts there were
          crossed         \* ghost: nodes where a handler began before another ended

memory == <<object, local>>
handling == <<job, encoded, crossed>>
joining == <<phase, contact, turn, length>>
vars == <<memory, file, handling, joining, updating, restarts>>

Tag == {"start", "tick"} \cup Node
Up == {n \in Node : phase[n] \in {"telling", "in"}}
LocalNode(n) == object[n][local[n]]
Elements(s) == {s[i] : i \in DOMAIN s}
Writing(n) == {j \in Node : job[n][j] = "writing"}
Busy(n) == {j \in Node : job[n][j] \in {"loaded", "writing"}}

TypeOK ==
    /\ object \in [Node -> [Tag -> List]] /\ local \in [Node -> Tag]
    /\ file \in [Node -> List \cup {None, Torn}]
    /\ job \in [Node -> [Node -> {"none", "loaded", "writing", "done"}]]
    /\ encoded \in [Node -> [Node -> List]]
    /\ phase \in [Node -> {"out", "asking", "telling", "in", "ended"}]
    /\ contact \in [Node -> Node] /\ turn \in [Node -> Nat] /\ length \in [Node -> Nat]
    /\ updating \cup crossed \subseteq Node /\ restarts \in 0 .. MaxRestarts
    \* a node that is up can be started again, or has a write to finish
    /\ \A n \in Up : file[n] # None /\ (file[n] = Torn => Writing(n) # {})

Empty == [nodes |-> <<>>, key |-> FALSE]
\* The founder has created the cluster (Init, SaveClusterFile).
Created == [nodes |-> <<Founder>>, key |-> TRUE]
Init ==
    /\ object = [n \in Node |-> [t \in Tag |-> IF n = Founder /\ t = "start" THEN Created ELSE Empty]]
    /\ local = [n \in Node |-> "start"]
    /\ file = [n \in Node |-> IF n = Founder THEN Created ELSE None]
    /\ job = [n \in Node |-> [j \in Node |-> "none"]]
    /\ encoded = [n \in Node |-> [j \in Node |-> Empty]]
    /\ phase = [n \in Node |-> IF n = Founder THEN "in" ELSE "out"]
    /\ contact = [n \in Node |-> Founder] /\ turn = [n \in Node |-> 1]
    /\ length = [n \in Node |-> 0]
    /\ updating = {} /\ restarts = 0 /\ crossed = {}

-----------------------------------------------------------------------------
(* An operator with an underscore in its name is a mutant.                     *)

End(S) == phase' = [n \in Node |-> IF n \in S THEN "ended" ELSE phase[n]]
\* A process, and those that wait for one of its handlers.
With(n) == {n} \cup {j \in Node : job[n][j] \in {"loaded", "writing"}}
Begin(n) == crossed' = crossed \cup {x \in {n} : Busy(n) # {}}

Save_Before(n, j) ==
    /\ encoded' = [encoded EXCEPT ![n][j] = LocalNode(n)]
    /\ file' = [file EXCEPT ![n] = Torn]
    /\ job' = [job EXCEPT ![n][j] = "writing"]

\* SaveClusterFile, up to the truncation of the file, by the handler of n for j.
Save(n, j) ==
    /\ encoded' = [encoded EXCEPT ![n][j] = object'[n][local'[n]]]
    /\ file' = [file EXCEPT ![n] = Torn]
    /\ job' = [job EXCEPT ![n][j] = "writing"]

AddNodeToClusterFile_NewCluster(n, j, tag, node) ==
    /\ object' = [object EXCEPT ![n][tag] = [nodes |-> Append(@.nodes, node), key |-> FALSE]]
    /\ local' = [local EXCEPT ![n] = tag]
    /\ Save(n, j)

\* AddNodeToClusterFile.  The nodes of the last update lie in the array of the
\* object it was made from: what is appended to them may show up there.
AddNodeToClusterFile(n, j, tag, node) ==
    LET lists == object[n]
        place == Len(lists[tag].nodes) + 1
        within == tag = "tick" /\ place <= Len(lists["start"].nodes)
        longer == [lists EXCEPT ![tag].nodes = Append(@, node)]
        also == [lists["start"].nodes EXCEPT ![place] = node]
    IN /\ object' = [object EXCEPT ![n] = IF within THEN [longer EXCEPT !["start"].nodes = also] ELSE longer]
       /\ local' = [local EXCEPT ![n] = tag]
       /\ Save(n, j)

\* delRepeatElem: neighbours only.  The first test compares an element with the
\* next one, the second in effect with the one before; the ends are not reached.
loopTurn(was) ==
    LET i == was.i
        nodes == was.left
    IN IF i >= Len(nodes) THEN was
       ELSE IF nodes[i] \in {nodes[i + 1], nodes[i - 1]}
       THEN [i |-> i, left |-> SubSeq(nodes, 1, i - 1) \o SubSeq(nodes, i + 1, Len(nodes))]
       ELSE [i |-> i + 1, left |-> nodes]
delRepeatElem(nodes) ==
    LET pass[k \in 0 .. Len(nodes)] == IF k = 0 THEN [i |-> 2, left |-> nodes] ELSE loopTurn(pass[k - 1])
    IN pass[Len(nodes)].left

-----------------------------------------------------------------------------
(* On a member.                                                                *)

LoadClusterFile_NoKey(n, j) ==
    /\ n \in Up /\ phase[j] = "out" /\ contact' = [contact EXCEPT ![j] = n]
    /\ IF file[n] = Torn
       THEN End(With(n) \cup {j}) /\ UNCHANGED <<memory, job, crossed>>
       ELSE /\ object' = [object EXCEPT ![n][j] = file[n]]
            /\ local' = [local EXCEPT ![n] = j]
            /\ phase' = [phase EXCEPT ![j] = "asking"]
            /\ job' = [job EXCEPT ![n][j] = "loaded"] /\ Begin(n)
    /\ UNCHANGED <<file, encoded, turn, length, updating, restarts>>

\* JoinCluster, up to the check of the key: LocalNode is replaced by what the file
\* holds; a torn file ends the process, and a refusal that of the caller.
LoadClusterFile(n, j) ==
    /\ n \in Up /\ phase[j] = "out" /\ contact' = [contact EXCEPT ![j] = n]
    /\ IF file[n] = Torn
       THEN End(With(n) \cup {j}) /\ UNCHANGED <<memory, job, crossed>>
       ELSE /\ object' = [object EXCEPT ![n][j] = file[n]]
            /\ local' = [local EXCEPT ![n] = j]
            /\ IF j \in Stranger \/ ~ file[n].key
               THEN End({j}) /\ UNCHANGED <<job, crossed>>
               ELSE /\ phase' = [phase EXCEPT ![j] = "asking"]
                    /\ job' = [job EXCEPT ![n][j] = "loaded"] /\ Begin(n)
    /\ UNCHANGED <<file, encoded, turn, length, updating, restarts>>

JoinCluster_AddSelf(n, j) ==
    /\ n \in Up /\ job[n][j] = "loaded" /\ AddNodeToClusterFile(n, j, j, n)
    /\ UNCHANGED <<crossed, joining, updating, restarts>>
\* ... and from there on: the joiner is added to what was loaded.
JoinCluster(n, j) ==
    /\ n \in Up /\ job[n][j] = "loaded" /\ AddNodeToClusterFile(n, j, j, j)
    /\ UNCHANGED <<crossed, joining, updating, restarts>>

\* The file is written; the handler returns.
Written(n, j) ==
    /\ n \in Up /\ job[n][j] = "writing"
    /\ file' = [file EXCEPT ![n] = encoded[n][j]]
    /\ job' = [job EXCEPT ![n][j] = IF j = n THEN "none" ELSE "done"]
    /\ UNCHANGED <<memory, encoded, crossed, joining, updating, restarts>>

\* UpdateClusterFile, every 1.5 s: LocalNode becomes what the node was started
\* with, less the repeated neighbours (in the same array) and without the key.
UpdateClusterFile(n) ==
    LET old == object[n]["start"].nodes
        fewer == delRepeatElem(old)
    IN /\ n \in updating \cap Up /\ job[n][n] = "none"
       /\ object' = [object EXCEPT ![n]["tick"] = [nodes |-> fewer, key |-> FALSE],
                                   ![n]["start"].nodes =
                                       [i \in DOMAIN old |-> IF i \in DOMAIN fewer THEN fewer[i] ELSE old[Len(old)]]]
       /\ local' = [local EXCEPT ![n] = "tick"]
       /\ Save(n, n) /\ Begin(n)
       /\ UNCHANGED <<joining, updating, restarts>>

\* A member ends, the handlers with it, and the joiners that wait for them; it is
\* started again from its file (main.go), unless that is torn.
Restart(n) ==
    /\ phase[n] = "in" /\ restarts < MaxRestarts /\ restarts' = restarts + 1
    /\ IF file[n] = Torn
       THEN End(With(n)) /\ UNCHANGED <<memory, updating>>
       ELSE /\ End(With(n) \ {n})
            /\ object' = [object EXCEPT ![n] = [t \in Tag |-> IF t = "start" THEN file[n] ELSE Empty]]
            /\ local' = [local EXCEPT ![n] = "start"]
            /\ updating' = updating \cup {n}
    /\ job' = [job EXCEPT ![n] = [j \in Node |-> IF @[j] = "done" THEN "done" ELSE "none"]]
    /\ UNCHANGED <<file, encoded, crossed, contact, turn, length>>

-----------------------------------------------------------------------------
(* On a joiner.                                                                *)

\* What SendFile reads and RecvFiles writes.
Sent(c) == file[c]

\* JoinToCluster, when JoinCluster has returned: the file is received, and read.
JoinToCluster(j) ==
    LET host == contact[j]
    IN /\ phase[j] = "asking" /\ job[host][j] = "done"
       /\ IF host \notin Up \/ Sent(host) = Torn
          THEN End({j}) /\ UNCHANGED <<memory, file, turn, length>>
          ELSE /\ file' = [file EXCEPT ![j] = Sent(host)]
               /\ object' = [object EXCEPT ![j]["start"] = Sent(host)]
               /\ local' = [local EXCEPT ![j] = "start"]
               /\ turn' = [turn EXCEPT ![j] = 1]
               /\ length' = [length EXCEPT ![j] = Len(Sent(host).nodes)]
               /\ phase' = [phase EXCEPT ![j] = "telling"]
       /\ job' = [job EXCEPT ![host][j] = "none"]
       /\ UNCHANGED <<encoded, crossed, contact, updating, restarts>>

\* BroadCast goes through LocalNode, which handlers may change meanwhile, up to the
\* length it had, and leaves itself and its contact out.
Callee(j, i) == LocalNode(j).nodes[i]
InRange(j, i) == i <= Len(LocalNode(j).nodes)
Rest(j) == {i \in turn[j] .. length[j] : InRange(j, i) => Callee(j, i) \notin {j, contact[j]}}
BroadCast(j) == phase[j] = "telling" /\ \A n \in Node : job[n][j] = "none"

\* BroadcastNode of the next one adds the node it is told of: that is itself.
BroadcastNode(j, i) ==
    /\ BroadCast(j) /\ i \in Rest(j) /\ \A k \in Rest(j) : i <= k
    /\ IF ~ InRange(j, i) \/ Callee(j, i) \notin Up
       THEN End(With(j)) /\ UNCHANGED <<memory, file, handling>>
       ELSE LET n == Callee(j, i)
            IN AddNodeToClusterFile(n, j, local[n], n) /\ Begin(n) /\ UNCHANGED phase
    /\ turn' = [turn EXCEPT ![j] = i + 1]
    /\ UNCHANGED <<contact, length, updating, restarts>>

\* The call has returned.
Told(j) ==
    /\ phase[j] = "telling"
    /\ \E n \in Node : job[n][j] = "done" /\ job' = [job EXCEPT ![n][j] = "none"]
    /\ UNCHANGED <<memory, file, encoded, crossed, joining, updating, restarts>>

Joined(j) ==
    /\ BroadCast(j) /\ Rest(j) = {}
    /\ phase' = [phase EXCEPT ![j] = "in"]
    /\ turn' = [turn EXCEPT ![j] = 1] /\ length' = [length EXCEPT ![j] = 0]
    /\ UNCHANGED <<memory, file, handling, contact, updating, restarts>>

Enter(j) == JoinToCluster(j) \/ (\E i \in Rest(j) : BroadcastNode(j, i)) \/ Told(j) \/ Joined(j)
Serve(n, j) == LoadClusterFile(n, j) \/ JoinCluster(n, j) \/ Written(n, j)
Next == \E n \in Node : Enter(n) \/ UpdateClusterFile(n) \/ Restart(n) \/ \E j \in Node : Serve(n, j)
Spec == Init /\ [][Next]_vars

-----------------------------------------------------------------------------
\* Nodes whose list only their own handlers changed, one after the other.
Calm == Node \ (crossed \cup updating)
\* The nodes through which n came, itself included: those in every set that holds n
\* and the contact of each of its members.
Path(n) ==
    LET closed == {S \in SUBSET Node : n \in S /\ \A m \in S : contact[m] \in S}
    IN {m \in Node : \A S \in closed : m \in S}

\* Nobody who does not have the key is in a list, in memory or on disk (JoinCluster;
\* BroadcastNode asks for no key).
KeyChecked ==
    \A n \in Node :
        /\ \A t \in Tag : Elements(object[n][t].nodes) \cap Stranger = {}
        /\ file[n] \in List => Elements(file[n].nodes) \cap Stranger = {}

\* Between two handlers the file holds what LocalNode points to (SaveClusterFile
\* encodes the variable, not the object that was changed).
FileIsLocal == \A n \in Up \ crossed : Busy(n) = {} => file[n] = LocalNode(n)

\* What holds of every list and file, whatever LocalNode was put back to.
Inv == TypeOK /\ KeyChecked /\ FileIsLocal

\* Who has joined is in the list of the node it came through, unless handlers crossed
\* there or UpdateClusterFile put the old list back (JoinCluster).
KeptByContact ==
    \A j \in Up \ {Founder} : contact[j] \in Calm => j \in Elements(LocalNode(contact[j]).nodes)

\* A joiner knows itself and everyone on the path it came by, while those kept their
\* lists (JoinToCluster sends the file after JoinCluster has returned).
JoinerKnows ==
    \A j \in Up \cap Calm :
        LET path == Path(j) IN path \subseteq Calm => path \subseteq Elements(LocalNode(j).nodes)

\* The key, which lets others join, is lost only through UpdateClusterFile, on the
\* node itself or on one it came by.
KeyKept == \A n \in Up : ~ LocalNode(n).key => Path(n) \cap updating # {}
=============================================================================
