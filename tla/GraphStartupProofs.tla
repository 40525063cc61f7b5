------------------------ MODULE GraphStartupProofs ------------------------
(***************************************************************************)
(* Proofs about GraphStartup, for any number of workers and any bound on   *)
(* failures: its types, who may leave the file half-written, and that the  *)
(* file stays as it is, complete or cut off, once nobody is writing it.    *)
(***************************************************************************)
EXTENDS GraphStartup, TLAPS

LEMMA InitTyped == Init => TypeOK
BY NobodyAssumption, BoundsAssumption DEF Init, TypeOK

LEMMA InterruptTyped ==
    ASSUME TypeOK, NEW w \in Workers, Interrupt(w)
    PROVE  interruptions' \in [Workers -> 0 .. MaxInterruptions]
BY BoundsAssumption DEF TypeOK, Interrupt

LEMMA NextTyped ==
    ASSUME TypeOK, [Next]_vars
    PROVE  TypeOK'
<1>1. ASSUME NEW w \in Workers, Start(w) PROVE TypeOK'
  BY <1>1, TypeOK DEF TypeOK, Start, GoTo, FileKept
<1>2. ASSUME NEW w \in Workers, Startup(w) PROVE TypeOK'
  <2>1. CASE Check(w)
    BY <2>1, TypeOK DEF TypeOK, Check, GoTo, FileKept
  <2>2. CASE Load(w)
    BY <2>2, TypeOK DEF TypeOK, Load, LoadedGraph, NoGraph, GoTo, FileKept
  <2>3. CASE Download(w)
    BY <2>3, TypeOK, BoundsAssumption DEF TypeOK, Download, NoGraph, GoTo, FileKept
  <2>4. CASE OpenFile(w)
    BY <2>4, TypeOK DEF TypeOK, OpenFile, GoTo
  <2>5. CASE FinishFile(w)
    BY <2>5, TypeOK DEF TypeOK, FinishFile, LoadedGraph, GoTo
  <2>6. CASE SaveFails(w)
    BY <2>6, InterruptTyped, TypeOK DEF TypeOK, SaveFails, NoGraph, GoTo, FileKept
  <2>7. CASE BuildSnapIndex(w)
    <3>1. snap_index' \in [Workers -> BOOLEAN]
      BY <2>7, TypeOK, Zenon DEF TypeOK, BuildSnapIndex
    <3>2. outages' \in 0 .. MaxOutages
      BY <2>7, TypeOK, BoundsAssumption DEF TypeOK, BuildSnapIndex
    <3> QED
      BY <2>7, <3>1, <3>2, TypeOK DEF TypeOK, BuildSnapIndex, GoTo, FileKept
  <2> QED
    BY <1>2, <2>1, <2>2, <2>3, <2>4, <2>5, <2>6, <2>7 DEF Startup
<1>3. ASSUME NEW w \in Workers, Die(w) PROVE TypeOK'
  BY <1>3, InterruptTyped, TypeOK DEF TypeOK, Die, GoTo, FileKept
<1>4. CASE UNCHANGED vars
  BY <1>4, TypeOK DEF TypeOK, vars
<1> QED
  BY <1>1, <1>2, <1>3, <1>4 DEF Next

\* Startup never leaves the values lifespan() and the file can have.
THEOREM AlwaysTyped == Spec => []TypeOK
BY InitTyped, NextTyped, PTL DEF Spec

---------------------------------------------------------------------------
(* A partial file has somebody who is writing it, or somebody to blame.    *)

LEMMA NextBlames ==
    ASSUME TypeOK, PartialOnlyWhenInterrupted, [Next]_vars
    PROVE  PartialOnlyWhenInterrupted'
<1> USE DEF PartialOnlyWhenInterrupted
\* Interruptions are counted, never forgotten.
<1>1. ASSUME NEW w \in Workers, Interrupt(w)
      PROVE  /\ interruptions'[w] > 0
             /\ \A v \in Workers : interruptions[v] > 0 => interruptions'[v] > 0
  BY <1>1, TypeOK, BoundsAssumption DEF TypeOK, Interrupt
\* Whoever is not writing changes nothing that matters, even if it is interrupted.
<1>2. ASSUME NEW w \in Workers, FileKept, UNCHANGED interruptions \/ Interrupt(w),
             step[w] # "writing", NEW s, GoTo(w, s)
      PROVE  PartialOnlyWhenInterrupted'
  BY <1>1, <1>2, TypeOK DEF TypeOK, FileKept, GoTo
<1>3. ASSUME NEW w \in Workers, Start(w) PROVE PartialOnlyWhenInterrupted'
  BY <1>2, <1>3 DEF Start
<1>4. ASSUME NEW w \in Workers, Startup(w) PROVE PartialOnlyWhenInterrupted'
  <2>1. CASE Check(w)
    BY <1>2, <2>1 DEF Check
  <2>2. CASE Load(w)
    BY <1>2, <2>2 DEF Load, LoadedGraph, NoGraph
  <2>3. CASE Download(w)
    BY <1>2, <2>3 DEF Download, NoGraph
  <2>4. CASE OpenFile(w)
    BY <2>4, TypeOK DEF TypeOK, OpenFile, GoTo
  <2>5. CASE FinishFile(w)
    BY <2>5, TypeOK DEF TypeOK, FinishFile, LoadedGraph, GoTo
  <2>6. CASE SaveFails(w)
    BY <1>1, <2>6, TypeOK DEF TypeOK, SaveFails, NoGraph, FileKept, GoTo
  <2>7. CASE BuildSnapIndex(w)
    BY <1>2, <2>7 DEF BuildSnapIndex
  <2> QED
    BY <1>4, <2>1, <2>2, <2>3, <2>4, <2>5, <2>6, <2>7 DEF Startup
<1>5. ASSUME NEW w \in Workers, Die(w) PROVE PartialOnlyWhenInterrupted'
  <2>1. CASE step[w] # "writing"
    BY <1>2, <1>5, <2>1 DEF Die
  <2>2. CASE step[w] = "writing"
    BY <1>1, <1>5, <2>2, TypeOK DEF TypeOK, Die, FileKept, GoTo
  <2> QED
    BY <2>1, <2>2
<1>6. CASE UNCHANGED vars
  BY <1>6 DEF vars
<1> QED
  BY <1>3, <1>4, <1>5, <1>6 DEF Next

\* However many workers race, a half-written file is still being written by the
\* worker that truncated it last, unless this very worker was interrupted.
THEOREM OnlyInterruptionsTruncate == Spec => []PartialOnlyWhenInterrupted
<1>1. Init => PartialOnlyWhenInterrupted
  BY DEF Init, PartialOnlyWhenInterrupted
<1> QED
  BY <1>1, InitTyped, NextTyped, NextBlames, PTL DEF Spec

---------------------------------------------------------------------------
LEMMA NextQuiet ==
    ASSUME TypeOK, Quiet, [Next]_vars
    PROVE  Quiet'
<1> USE DEF Quiet, Saving
\* A step to anything but saving, which leaves the file alone.
<1>1. ASSUME NEW w \in Workers, FileKept, NEW s, GoTo(w, s),
             s \notin {"download", "save", "writing"}
      PROVE  Quiet'
  BY <1>1, TypeOK DEF TypeOK, FileKept, GoTo
<1>2. ASSUME NEW w \in Workers, Start(w) PROVE Quiet'
  BY <1>1, <1>2 DEF Start
<1>3. ASSUME NEW w \in Workers, Startup(w) PROVE Quiet'
  <2>1. CASE Check(w)
    BY <1>1, <2>1 DEF Check
  <2>2. CASE Load(w)
    BY <1>1, <2>2 DEF Load, LoadedGraph, NoGraph
  <2>3. CASE BuildSnapIndex(w)
    BY <1>1, <2>3 DEF BuildSnapIndex
  <2> QED
    BY <1>3, <2>1, <2>2, <2>3 DEF Startup, Download, OpenFile, FinishFile, SaveFails
<1>4. ASSUME NEW w \in Workers, Die(w) PROVE Quiet'
  BY <1>1, <1>4 DEF Die
<1>5. CASE UNCHANGED vars
  BY <1>5 DEF vars
<1> QED
  BY <1>2, <1>3, <1>4, <1>5 DEF Next

---------------------------------------------------------------------------
LEMMA NextTruncated ==
    ASSUME TypeOK, Truncated, [Next]_vars
    PROVE  Truncated' /\ \A v \in Workers : graph_loaded'[v] => graph_loaded[v]
<1> DEFINE Kept == Truncated' /\ \A v \in Workers : graph_loaded'[v] => graph_loaded[v]
<1> USE DEF Truncated, Saving
\* A step to anything but saving, which leaves the file alone and loads nothing.
<1>1. ASSUME NEW w \in Workers, FileKept, NEW s, GoTo(w, s),
             s \notin {"download", "save", "writing"},
             \A v \in Workers : graph_loaded'[v] => graph_loaded[v]
      PROVE  Kept
  BY <1>1, TypeOK DEF TypeOK, FileKept, GoTo
<1>2. ASSUME NEW w \in Workers, Start(w) PROVE Kept
  BY <1>1, <1>2 DEF Start
<1>3. ASSUME NEW w \in Workers, Startup(w) PROVE Kept
  <2>1. CASE Check(w)
    BY <1>1, <2>1 DEF Check
  <2>2. CASE Load(w)
    BY <1>1, <2>2 DEF Load, NoGraph
  <2>3. CASE BuildSnapIndex(w)
    BY <1>1, <2>3 DEF BuildSnapIndex
  <2> QED
    BY <1>3, <2>1, <2>2, <2>3 DEF Startup, Download, OpenFile, FinishFile, SaveFails
<1>4. ASSUME NEW w \in Workers, Die(w) PROVE Kept
  <2>1. \A v \in Workers : graph_loaded'[v] => graph_loaded[v]
    BY <1>4, TypeOK DEF TypeOK, Die
  <2> QED
    BY <1>1, <1>4, <2>1 DEF Die
<1>5. CASE UNCHANGED vars
  BY <1>5 DEF vars
<1> QED
  BY <1>2, <1>3, <1>4, <1>5 DEF Next

\* Whoever dies and is started again, a file that nobody is about to write stays
\* as it is: complete, or cut off, and then nobody gets a graph from it.
THEOREM ExistingFileFinal == Spec => SettledFileKept
<1>1. TypeOK /\ [Next]_vars =>
        [/\ Quiet => Quiet'
         /\ Truncated => /\ Truncated'
                         /\ \A w \in Workers : graph_loaded'[w] => graph_loaded[w]]_vars
  BY NextQuiet, NextTruncated
<1> QED
  BY <1>1, AlwaysTyped, PTL DEF Spec, SettledFileKept
===========================================================================
