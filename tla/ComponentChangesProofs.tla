----------------------- MODULE ComponentChangesProofs -----------------------
(***************************************************************************)
(* Proofs about ComponentChanges, for any product, any selections, any     *)
(* releases and any number of sessions.                                    *)
(*                                                                         *)
(* The argument: a step of a calculator has one of a few shapes (the frame *)
(* at the top of the call stack changes, calls, or returns; a component is *)
(* added), and what has to hold of the stack is said frame by frame, so    *)
(* that it is looked at for each shape once.  What a loop has passed is    *)
(* added, or installed as required, or waits for the call above            *)
(* (DependenciesInStep); what was added, or will be, has a reason          *)
(* (ReasonsInStep), and so has what is removed (GoingInStep), together     *)
(* with what needs it (RemovalInStep); what follows automatically is       *)
(* remembered for the next check (AutomaticInStep).  SessionInv puts these *)
(* together with the phases of a session.                                  *)
(*                                                                         *)
(* That a selection never fails needs more: the tree that was built gives  *)
(* each component a place, lower for what it needs, and the calls of every *)
(* later calculation go down (ResolveInv).                                 *)
(***************************************************************************)
EXTENDS ComponentChanges, SequenceLemmas, FiniteSetTheorems

-----------------------------------------------------------------------------
(* Lists and call stacks                                                   *)

\* A list without repetition.
NoRepeat(s) == \A i, j \in DOMAIN s : s[i] = s[j] => i = j

\* What a list of some type holds is of that type.
LEMMA RangeType ==
  ASSUME NEW S, NEW s \in Seq(S)
  PROVE  /\ Range(s) \subseteq S /\ DOMAIN s = 1 .. Len(s) /\ Len(s) \in Nat
         /\ s = <<>> <=> Range(s) = {}
         /\ s = <<>> <=> Len(s) = 0
<1>1. DOMAIN s = 1 .. Len(s) /\ Len(s) \in Nat /\ \A i \in 1 .. Len(s) : s[i] \in S
  BY LenProperties, ElementOfSeq
<1>2. s = <<>> <=> Len(s) = 0
  BY EmptySeq
<1>3. s # <<>> => 1 \in DOMAIN s
  BY <1>1, <1>2
<1>4. s = <<>> => Range(s) = {}
  BY <1>1, <1>2 DEF Range
<1> QED
  BY <1>1, <1>2, <1>3, <1>4 DEF Range

\* addComponentForInstall() at the end of a list.
LEMMA RangeAppend ==
  ASSUME NEW S, NEW s \in Seq(S), NEW e \in S
  PROVE  /\ Append(s, e) \in Seq(S)
         /\ Range(Append(s, e)) = Range(s) \cup {e}
         /\ Len(Append(s, e)) = Len(s) + 1 /\ Append(s, e)[Len(s) + 1] = e
         /\ \A i \in 1 .. Len(s) : Append(s, e)[i] = s[i]
         /\ NoRepeat(s) /\ e \notin Range(s) => NoRepeat(Append(s, e))
<1>1. /\ Append(s, e) \in Seq(S) /\ Len(Append(s, e)) = Len(s) + 1
      /\ Append(s, e)[Len(s) + 1] = e
      /\ \A i \in 1 .. Len(s) : Append(s, e)[i] = s[i]
  BY AppendProperties
<1>2. Range(Append(s, e)) = Range(s) \cup {e}
  BY ToSetAppend DEF ToSet, Range
<1>3. NoRepeat(s) /\ e \notin Range(s) => NoRepeat(Append(s, e))
  BY InjectiveAppend DEF NoRepeat, IsInjective, ToSet, Range
<1> QED
  BY <1>1, <1>2, <1>3

\* One turn of a loop over a list.
LEMMA RangeHeadTail ==
  ASSUME NEW S, NEW s \in Seq(S), s # <<>>
  PROVE  /\ Head(s) \in S /\ Tail(s) \in Seq(S) /\ Head(s) = s[1]
         /\ Range(s) = {Head(s)} \cup Range(Tail(s))
         /\ NoRepeat(s) => NoRepeat(Tail(s)) /\ Head(s) \notin Range(Tail(s))
<1>1. Head(s) \in S /\ Tail(s) \in Seq(S) /\ Head(s) = s[1]
  BY HeadTailProperties, ElementOfSeq
<1>2. Range(s) = {Head(s)} \cup Range(Tail(s))
  BY ToSetHeadTail DEF ToSet, Range
<1>3. NoRepeat(s) => NoRepeat(Tail(s)) /\ Head(s) \notin Range(Tail(s))
  BY ToSetHeadTail DEF ToSet, Range, NoRepeat, IsInjective
<1> QED
  BY <1>1, <1>2, <1>3

\* A call that goes on.
LEMMA Replaced ==
  ASSUME NEW S, NEW s \in Seq(S), s # <<>>, NEW f \in S, NEW t, t = <<f>> \o Tail(s)
  PROVE  /\ t \in Seq(S) /\ t # <<>> /\ Len(t) = Len(s)
         /\ t[1] = f /\ \A i \in 2 .. Len(s) : t[i] = s[i]
<1>1. /\ Tail(s) \in Seq(S) /\ Len(Tail(s)) = Len(s) - 1 /\ Len(s) \in Nat /\ Len(s) # 0
      /\ \A i \in 1 .. Len(s) - 1 : Tail(s)[i] = s[i + 1]
  BY HeadTailProperties, LenProperties, EmptySeq
<1>2. <<f>> \in Seq(S) /\ Len(<<f>>) = 1 /\ <<f>>[1] = f
  OBVIOUS
<1>3. /\ t \in Seq(S) /\ Len(t) = Len(s)
      /\ \A i \in 1 .. Len(s) : t[i] = IF i <= 1 THEN <<f>>[i] ELSE Tail(s)[i - 1]
  <2>1. /\ t \in Seq(S) /\ Len(t) = 1 + Len(Tail(s))
        /\ \A i \in 1 .. 1 + Len(Tail(s)) :
             t[i] = IF i <= 1 THEN <<f>>[i] ELSE Tail(s)[i - 1]
    BY <1>1, <1>2, ConcatProperties
  <2> QED
    BY <1>1, <2>1
<1>4. t[1] = f
  BY <1>1, <1>2, <1>3
<1>5. ASSUME NEW i \in 2 .. Len(s) PROVE t[i] = s[i]
  <2>1. i - 1 \in 1 .. Len(s) - 1 /\ i \in 1 .. Len(s) /\ ~(i <= 1) /\ i - 1 + 1 = i
    BY <1>1
  <2> QED
    BY <1>1, <1>3, <2>1
<1>6. t # <<>>
  BY <1>1, <1>3, EmptySeq
<1> QED
  BY <1>3, <1>4, <1>5, <1>6

\* A call that calls another.
LEMMA Pushed ==
  ASSUME NEW S, NEW s \in Seq(S), s # <<>>, NEW f \in S, NEW g \in S,
         NEW t, t = <<g, f>> \o Tail(s)
  PROVE  /\ t \in Seq(S) /\ t # <<>> /\ Len(t) = Len(s) + 1
         /\ t[1] = g /\ t[2] = f /\ \A i \in 3 .. Len(s) + 1 : t[i] = s[i - 1]
<1>1. /\ Tail(s) \in Seq(S) /\ Len(Tail(s)) = Len(s) - 1 /\ Len(s) \in Nat /\ Len(s) # 0
      /\ \A i \in 1 .. Len(s) - 1 : Tail(s)[i] = s[i + 1]
  BY HeadTailProperties, LenProperties, EmptySeq
<1>2. /\ <<g, f>> \in Seq(S) /\ Len(<<g, f>>) = 2
      /\ <<g, f>>[1] = g /\ <<g, f>>[2] = f
  OBVIOUS
<1>3. /\ t \in Seq(S) /\ Len(t) = Len(s) + 1
      /\ \A i \in 1 .. Len(s) + 1 : t[i] = IF i <= 2 THEN <<g, f>>[i] ELSE Tail(s)[i - 2]
  <2>1. /\ t \in Seq(S) /\ Len(t) = 2 + Len(Tail(s))
        /\ \A i \in 1 .. 2 + Len(Tail(s)) :
             t[i] = IF i <= 2 THEN <<g, f>>[i] ELSE Tail(s)[i - 2]
    BY <1>1, <1>2, ConcatProperties
  <2> QED
    BY <1>1, <2>1
<1>4. t[1] = g /\ t[2] = f
  BY <1>1, <1>2, <1>3
<1>5. ASSUME NEW i \in 3 .. Len(s) + 1 PROVE t[i] = s[i - 1]
  <2>1. i - 2 \in 1 .. Len(s) - 1 /\ i \in 1 .. Len(s) + 1 /\ ~(i <= 2) /\ i - 2 + 1 = i - 1
    BY <1>1
  <2> QED
    BY <1>1, <1>3, <2>1
<1>6. t # <<>>
  BY <1>1, <1>3, EmptySeq
<1> QED
  BY <1>3, <1>4, <1>5, <1>6

\* A call that returns.
LEMMA Popped ==
  ASSUME NEW S, NEW s \in Seq(S), s # <<>>
  PROVE  /\ Tail(s) \in Seq(S) /\ Len(Tail(s)) = Len(s) - 1
         /\ Tail(s) = <<>> <=> Len(s) = 1
         /\ \A i \in 1 .. Len(s) - 1 : Tail(s)[i] = s[i + 1]
<1>1. /\ Tail(s) \in Seq(S) /\ Len(Tail(s)) = Len(s) - 1 /\ Len(s) \in Nat
      /\ \A i \in 1 .. Len(s) - 1 : Tail(s)[i] = s[i + 1]
  BY HeadTailProperties, LenProperties
<1>2. Tail(s) = <<>> <=> Len(Tail(s)) = 0
  BY <1>1, EmptySeq
<1> QED
  BY <1>1, <1>2

\* The lists made from a set have each of its components once.
LEMMA OrderProperties ==
  ASSUME NEW T, T \subseteq Components, NEW order \in Orders(T)
  PROVE  /\ order \in Seq(Components) /\ Range(order) = T /\ NoRepeat(order)
         /\ order = <<>> <=> T = {}
<1> DEFINE n == Cardinality(T)
<1>1. IsFiniteSet(T) /\ n \in Nat
  BY ComponentAssumption, FS_Subset, FS_CardinalityType
<1>2. order \in [1 .. n -> T] /\ NoRepeat(order) /\ DOMAIN order = 1 .. n
  BY DEF Orders, NoRepeat
<1>3. order \in Seq(T)
  BY <1>1, <1>2, SeqDef
<1>4. order \in Injection(1 .. n, T)
  BY <1>2 DEF Injection, IsInjective, NoRepeat
<1>5. IsFiniteSet(1 .. n) /\ Cardinality(1 .. n) = n
  BY <1>1, FS_Interval
<1>6. order \in Surjection(1 .. n, T)
  BY <1>1, <1>4, <1>5, FS_Injection
<1>7. Range(order) = T
  <2>1. Range(order) \subseteq T
    BY <1>2 DEF Range
  <2>2. \A x \in T : \E i \in 1 .. n : order[i] = x
    BY <1>6 DEF Surjection
  <2> QED
    BY <1>2, <2>1, <2>2 DEF Range
<1>8. order \in Seq(Components)
  BY <1>3, SeqDef
<1> QED
  BY <1>2, <1>7, <1>8, RangeType

-----------------------------------------------------------------------------
(* Types                                                                   *)

Frames == SolveFrames \cup ComponentFrames

\* The two kinds of call, and their variables.
LEMMA FrameFields ==
  ASSUME NEW f \in Frames
  PROVE  /\ f.call \in {"solve", "solveComponent"}
         /\ f.call = "solve" => /\ f \in SolveFrames
                                /\ f.components \in Seq(Components)
                                /\ f.notAppended \in Seq(Components)
         /\ f.call = "solveComponent" => /\ f \in ComponentFrames
                                         /\ f.component \in Components
                                         /\ f.version \in 0..MaxVersion
                                         /\ f.dependencies \in Seq(Requirements)
  BY DEF Frames, SolveFrames, ComponentFrames

\* A turn of the first loop of solve().
LEMMA SolveFrameTurns ==
  ASSUME NEW f \in SolveFrames, f.components # <<>>, NEW c \in Components
  PROVE  /\ LET g == [f EXCEPT !.components = Tail(@)] IN
              /\ g \in SolveFrames /\ g.call = "solve"
              /\ g.components = Tail(f.components) /\ g.notAppended = f.notAppended
         /\ LET g == [f EXCEPT !.components = Tail(@), !.notAppended = Append(@, c)] IN
              /\ g \in SolveFrames /\ g.call = "solve"
              /\ g.components = Tail(f.components)
              /\ g.notAppended = Append(f.notAppended, c)
<1>1. f.components \in Seq(Components) /\ f.notAppended \in Seq(Components) /\ f.call = "solve"
  BY DEF SolveFrames
<1>2. Tail(f.components) \in Seq(Components) /\ Append(f.notAppended, c) \in Seq(Components)
  BY <1>1, RangeHeadTail, RangeAppend
<1> QED
  BY <1>1, <1>2 DEF SolveFrames

\* A turn of its second loop.
LEMMA PostponedFrameTurns ==
  ASSUME NEW f \in SolveFrames, f.notAppended # <<>>
  PROVE  LET g == [f EXCEPT !.notAppended = Tail(@)] IN
           /\ g \in SolveFrames /\ g.call = "solve" /\ g.components = f.components
           /\ g.notAppended = Tail(f.notAppended)
<1>1. f.components \in Seq(Components) /\ f.notAppended \in Seq(Components) /\ f.call = "solve"
  BY DEF SolveFrames
<1>2. Tail(f.notAppended) \in Seq(Components)
  BY <1>1, RangeHeadTail
<1> QED
  BY <1>1, <1>2 DEF SolveFrames

\* A turn of the loop of solveComponent().
LEMMA ComponentFrameTurns ==
  ASSUME NEW f \in ComponentFrames, f.dependencies # <<>>, NEW v \in 0..MaxVersion
  PROVE  LET g == [f EXCEPT !.dependencies = Tail(@), !.version = v] IN
           /\ g \in ComponentFrames /\ g.call = "solveComponent"
           /\ g.component = f.component /\ g.version = v
           /\ g.dependencies = Tail(f.dependencies)
<1>1. /\ f.dependencies \in Seq(Requirements) /\ f.call = "solveComponent"
      /\ f.component \in Components /\ f.version \in 0..MaxVersion
  BY DEF ComponentFrames
<1>2. Tail(f.dependencies) \in Seq(Requirements)
  BY <1>1, RangeHeadTail
<1> QED
  BY <1>1, <1>2 DEF ComponentFrames

\* The lists of dependencies hold requirements.
LEMMA DependencyTypes ==
  ASSUME ComponentTypeOK, NEW c \in Components
  PROVE  /\ Dependencies(c) \in Seq(Requirements)
         /\ LocalDependencies(c) \in Seq(Requirements)
         /\ CurrentDependencies(c) \in Seq(Requirements)
         /\ Range(Dependencies(c)) \subseteq Requirements
         /\ Range(LocalDependencies(c)) \subseteq Requirements
         /\ Range(CurrentDependencies(c)) \subseteq Requirements
<1>1. /\ available[c] \in Versions /\ installed[c] \in 0..MaxVersion
      /\ product.dependencies \in [Components -> [Versions -> Seq(Requirements)]]
  BY DEF ComponentTypeOK, ProductType
<1>2. MaxVersion \in Nat
  BY ComponentAssumption
<1>3. installed[c] # 0 => installed[c] \in Versions
  BY <1>1, <1>2 DEF Versions
<1>4. Dependencies(c) \in Seq(Requirements)
  BY <1>1 DEF Dependencies
<1>5. LocalDependencies(c) \in Seq(Requirements)
  BY <1>1, <1>3 DEF LocalDependencies
<1>6. CurrentDependencies(c) \in Seq(Requirements)
  BY <1>4, <1>5 DEF CurrentDependencies
<1> QED
  BY <1>4, <1>5, <1>6, RangeType

\* The call at the top of the stack.
LEMMA TopFrame ==
  ASSUME ComponentTypeOK, InstallerTypeOK, installStack # <<>>
  PROVE  /\ Frame \in Frames /\ Frame = installStack[1] /\ Callers \in Seq(Frames)
         /\ installStack \in Seq(Frames) /\ Len(installStack) \in Nat \ {0}
         /\ DOMAIN installStack = 1 .. Len(installStack)
         /\ \A i \in DOMAIN installStack : installStack[i] \in Frames
<1>1. installStack \in Seq(Frames)
  BY DEF InstallerTypeOK, Frames
<1> QED
  BY <1>1, RangeHeadTail, RangeType, ElementOfSeq DEF Frame, Callers

\* What solveComponent() is called with.
LEMMA SolveComponentType ==
  ASSUME ComponentTypeOK, NEW c \in Components, NEW v \in 0..MaxVersion
  PROVE  /\ SolveComponent(c, v) \in ComponentFrames
         /\ SolveComponent(c, v).call = "solveComponent"
         /\ SolveComponent(c, v).component = c /\ SolveComponent(c, v).version = v
         /\ SolveComponent(c, v).dependencies = CurrentDependencies(c)
  BY DependencyTypes DEF SolveComponent, ComponentFrames

\* What solve() is called with.
LEMMA SolveType ==
  ASSUME NEW s \in Seq(Components)
  PROVE  /\ Solve(s) \in SolveFrames /\ Solve(s).call = "solve"
         /\ Solve(s).components = s /\ Solve(s).notAppended = <<>>
  BY DEF Solve, SolveFrames

-----------------------------------------------------------------------------
(* What each step of the calculation of the installation does              *)

\* The call at the top has become f.
TopBecomes(f) ==
  /\ installStack' \in Seq(Frames) /\ installStack' # <<>>
  /\ DOMAIN installStack' = 1 .. Len(installStack)
  /\ Len(installStack') = Len(installStack)
  /\ installStack'[1] = f
  /\ \A i \in 2 .. Len(installStack) : installStack'[i] = installStack[i]

\* The call at the top has become f, which has called g.
TopCalls(f, g) ==
  /\ installStack' \in Seq(Frames) /\ installStack' # <<>>
  /\ DOMAIN installStack' = 1 .. Len(installStack) + 1
  /\ Len(installStack') = Len(installStack) + 1
  /\ installStack'[1] = g /\ installStack'[2] = f
  /\ \A i \in 3 .. Len(installStack) + 1 : installStack'[i] = installStack[i - 1]

\* The call at the top has returned.
TopReturns ==
  /\ installStack' \in Seq(Frames)
  /\ DOMAIN installStack' = 1 .. Len(installStack) - 1
  /\ Len(installStack') = Len(installStack) - 1
  /\ installStack' = <<>> <=> Len(installStack) = 1
  /\ \A i \in 1 .. Len(installStack) - 1 : installStack'[i] = installStack[i + 1]

LEMMA TopBecomesIs ==
  ASSUME ComponentTypeOK, InstallerTypeOK, installStack # <<>>, NEW f \in Frames,
         installStack' = <<f>> \o Callers
  PROVE  TopBecomes(f)
<1>1. installStack \in Seq(Frames)
  BY TopFrame
<1>2. installStack' = <<f>> \o Tail(installStack)
  BY DEF Callers
<1> DEFINE s == installStack
           t == installStack'
<1> HIDE DEF s, t
<1>3. t \in Seq(Frames) /\ t # <<>> /\ Len(t) = Len(s) /\ t[1] = f /\ \A i \in 2 .. Len(s) : t[i] = s[i]
  <2>1. s \in Seq(Frames) /\ s # <<>> /\ t = <<f>> \o Tail(s)
    BY <1>1, <1>2 DEF s, t
  <2> QED
    BY <2>1, Replaced
<1> QED
  BY <1>3, LenProperties DEF TopBecomes, s, t

LEMMA TopCallsIs ==
  ASSUME ComponentTypeOK, InstallerTypeOK, installStack # <<>>, NEW f \in Frames,
         NEW g \in Frames, installStack' = <<g, f>> \o Callers
  PROVE  TopCalls(f, g)
<1>1. installStack \in Seq(Frames)
  BY TopFrame
<1>2. installStack' = <<g, f>> \o Tail(installStack)
  BY DEF Callers
<1> DEFINE s == installStack
           t == installStack'
<1> HIDE DEF s, t
<1>3. /\ t \in Seq(Frames) /\ t # <<>> /\ Len(t) = Len(s) + 1
      /\ t[1] = g /\ t[2] = f /\ \A i \in 3 .. Len(s) + 1 : t[i] = s[i - 1]
  <2>1. s \in Seq(Frames) /\ s # <<>> /\ t = <<g, f>> \o Tail(s)
    BY <1>1, <1>2 DEF s, t
  <2> QED
    BY <2>1, Pushed
<1> QED
  BY <1>3, LenProperties DEF TopCalls, s, t

LEMMA TopReturnsIs ==
  ASSUME ComponentTypeOK, InstallerTypeOK, installStack # <<>>, installStack' = Callers
  PROVE  TopReturns
<1>1. installStack \in Seq(Frames)
  BY TopFrame
<1>2. installStack' = Tail(installStack)
  BY DEF Callers
<1>3. /\ installStack' \in Seq(Frames)
      /\ Len(installStack') = Len(installStack) - 1
      /\ installStack' = <<>> <=> Len(installStack) = 1
      /\ \A i \in 1 .. Len(installStack) - 1 : installStack'[i] = installStack[i + 1]
  BY <1>1, <1>2, Popped
<1> QED
  BY <1>3, LenProperties DEF TopReturns

\* The call c will add its component unless it is there already.
WillAdd(f) == ~IsInstalled(f.component, f.version) \/ IsUpdateAvailable(f.component)

\* A failure is handed down to the outermost caller.
Fails ==
  /\ installStack' = <<>> /\ installResult' = "failed"
  /\ UNCHANGED <<resolved, toInstall, toCheck, visited>>

\* c, which the first loop of solve() has come to, has no dependencies.
Adds(c, g) ==
  /\ Frame \in SolveFrames /\ Frame.components # <<>> /\ c = Head(Frame.components)
  /\ c \in Components \ toInstall /\ CurrentDependencies(c) = <<>>
  /\ g \in SolveFrames /\ g.components = Tail(Frame.components)
  /\ g.notAppended = Frame.notAppended
  /\ TopBecomes(g) /\ AddComponentForInstall(c, 0)
  /\ UNCHANGED <<visited, installResult>>

\* It has, and is left for the second loop.
Postpones(c, g) ==
  /\ Frame \in SolveFrames /\ Frame.components # <<>> /\ c = Head(Frame.components)
  /\ c \in Components \ toInstall
  /\ g \in SolveFrames /\ g.components = Tail(Frame.components)
  /\ g.notAppended = Append(Frame.notAppended, c)
  /\ TopBecomes(g)
  /\ UNCHANGED <<resolved, toInstall, toCheck, visited, installResult>>

\* The second loop has come to c.
Begins(c, g, h) ==
  /\ Frame \in SolveFrames /\ Frame.components = <<>>
  /\ Frame.notAppended # <<>> /\ c = Head(Frame.notAppended) /\ c \in Components
  /\ g \in SolveFrames /\ g.components = <<>> /\ g.notAppended = Tail(Frame.notAppended)
  /\ h \in ComponentFrames /\ h.component = c /\ h.version = 0
  /\ h.dependencies = CurrentDependencies(c)
  /\ TopCalls(g, h)
  /\ UNCHANGED <<resolved, toInstall, toCheck, visited, installResult>>

\* solve() is left, or goes on with automatic dependencies.
Ends ==
  /\ Frame \in SolveFrames /\ Frame.components = <<>> /\ Frame.notAppended = <<>>
  /\ AutoDependencyComponents = {}
  /\ toCheck' = {} /\ TopReturns
  /\ installResult' = IF installStack' = <<>> THEN "solved" ELSE installResult
  /\ UNCHANGED <<resolved, toInstall, visited>>

Follows(g) ==
  /\ Frame \in SolveFrames /\ Frame.components = <<>> /\ Frame.notAppended = <<>>
  /\ g \in SolveFrames /\ g.notAppended = <<>> /\ g.components # <<>>
  /\ Range(g.components) = AutoDependencyComponents /\ NoRepeat(g.components)
  /\ toCheck' = {} /\ TopBecomes(g)
  /\ UNCHANGED <<resolved, toInstall, visited, installResult>>

\* A dependency is in place.
Skips(g) ==
  /\ Frame \in ComponentFrames /\ Frame.dependencies # <<>>
  /\ Dependency \in Requirements /\ IsFound(Dependency) /\ ~MustSolve
  /\ g \in ComponentFrames /\ g.component = Frame.component /\ g.version = RequiredVersion
  /\ g.dependencies = Tail(Frame.dependencies)
  /\ TopBecomes(g)
  /\ UNCHANGED <<resolved, toInstall, toCheck, visited, installResult>>

\* It has to be solved first.
Descends(g, h) ==
  /\ Frame \in ComponentFrames /\ Frame.dependencies # <<>>
  /\ Dependency \in Requirements /\ IsFound(Dependency) /\ MustSolve
  /\ <<Frame.component, Dependency.name>> \notin visited
  /\ visited' = visited \cup {<<Frame.component, Dependency.name>>}
  /\ g \in ComponentFrames /\ g.component = Frame.component /\ g.version = RequiredVersion
  /\ g.dependencies = Tail(Frame.dependencies)
  /\ h \in ComponentFrames /\ h.component = Dependency.name /\ h.version = RequiredVersion
  /\ h.dependencies = CurrentDependencies(Dependency.name)
  /\ TopCalls(g, h)
  /\ UNCHANGED <<resolved, toInstall, toCheck, installResult>>

\* All dependencies of a component are in place.
Completes ==
  /\ Frame \in ComponentFrames /\ Frame.dependencies = <<>>
  /\ IF Frame.component \in toInstall
       THEN UNCHANGED <<resolved, toInstall, toCheck>>
       ELSE AddComponentForInstall(Frame.component, Frame.version)
  /\ TopReturns
  /\ installResult' = IF installStack' = <<>> THEN "solved" ELSE installResult
  /\ UNCHANGED visited

\* Why a calculation fails.
FailsFor ==
  \/ /\ Frame \in SolveFrames /\ Frame.components # <<>>
     /\ Head(Frame.components) \in toInstall
  \/ /\ Frame \in ComponentFrames /\ Frame.dependencies # <<>>
     /\ ~IsFound(Dependency)
  \/ /\ Frame \in ComponentFrames /\ Frame.dependencies # <<>>
     /\ MustSolve /\ <<Frame.component, Dependency.name>> \in visited

LEMMA RequiredVersionType ==
  ASSUME ComponentTypeOK, Frame \in ComponentFrames, Frame.dependencies # <<>>
  PROVE  Dependency \in Requirements /\ RequiredVersion \in 0..MaxVersion
<1>1. Frame.version \in 0..MaxVersion /\ Frame.dependencies \in Seq(Requirements)
  BY DEF ComponentFrames
<1>2. Dependency \in Requirements
  BY <1>1, RangeHeadTail DEF Dependency
<1> QED
  BY <1>1, <1>2 DEF RequiredVersion, Requirements

\* A step of the calculation is one of these.
LEMMA InstallerSteps ==
  ASSUME ComponentTypeOK, InstallerTypeOK, InstallerNext
  PROVE  /\ installStack # <<>>
         /\ \/ Fails /\ FailsFor
            \/ \E c \in Components, g \in SolveFrames : Adds(c, g) \/ Postpones(c, g)
            \/ \E c \in Components, g \in SolveFrames, h \in ComponentFrames : Begins(c, g, h)
            \/ Ends \/ \E g \in SolveFrames : Follows(g)
            \/ \E g \in ComponentFrames : Skips(g)
            \/ \E g, h \in ComponentFrames : Descends(g, h)
            \/ Completes
<1>1. installStack # <<>>
  BY DEF InstallerNext, AddWithoutDependencies, Postpone, SolvePostponed,
         SolveAutoDependencies, MissingDependency, SkipDependency, RecursionDetected,
         SolveDependency, ComponentSolved, InCall, Looking
<1>2. Frame \in Frames /\ Frame = Head(installStack)
  BY <1>1, TopFrame DEF Frame
<1>3. InCall("solve") => Frame \in SolveFrames
  BY <1>2, FrameFields DEF InCall
<1>4. InCall("solveComponent") => Frame \in ComponentFrames
  BY <1>2, FrameFields DEF InCall
<1>5. SolveFrames \subseteq Frames /\ ComponentFrames \subseteq Frames
  BY DEF Frames
<1>6. ASSUME Frame \in SolveFrames, Frame.components # <<>>
      PROVE  Head(Frame.components) \in Components
  BY <1>6, RangeHeadTail DEF SolveFrames
<1>7. ASSUME AddWithoutDependencies
      PROVE  \/ Fails /\ FailsFor
             \/ \E c \in Components, g \in SolveFrames : Adds(c, g)
  <2> DEFINE c == Head(Frame.components)
             g == [Frame EXCEPT !.components = Tail(@)]
  <2>1. Frame \in SolveFrames /\ Frame.components # <<>> /\ c \in Components
    BY <1>3, <1>6, <1>7 DEF AddWithoutDependencies
  <2>2. CASE c \in toInstall
    BY <1>7, <2>1, <2>2 DEF AddWithoutDependencies, FailInstall, Fails, FailsFor
  <2>3. CASE c \notin toInstall
    <3>1. /\ CurrentDependencies(c) = <<>> /\ AddComponentForInstall(c, 0)
          /\ installStack' = <<g>> \o Callers /\ UNCHANGED <<visited, installResult>>
      BY <1>7, <2>3 DEF AddWithoutDependencies
    <3>2. /\ g \in SolveFrames /\ g.components = Tail(Frame.components)
          /\ g.notAppended = Frame.notAppended
      BY <2>1, SolveFrameTurns
    <3> HIDE DEF c, g
    <3>3. TopBecomes(g)
      BY <1>1, <1>5, <3>1, <3>2, TopBecomesIs
    <3>4. Adds(c, g)
      BY <2>1, <2>3, <3>1, <3>2, <3>3 DEF Adds, c
    <3> QED
      BY <2>1, <3>2, <3>4
  <2> QED
    BY <2>2, <2>3
<1>8. ASSUME Postpone PROVE \E c \in Components, g \in SolveFrames : Postpones(c, g)
  <2> DEFINE c == Head(Frame.components)
             g == [Frame EXCEPT !.components = Tail(@), !.notAppended = Append(@, c)]
  <2>1. Frame \in SolveFrames /\ Frame.components # <<>> /\ c \in Components
    BY <1>3, <1>6, <1>8 DEF Postpone
  <2>2. /\ c \notin toInstall /\ installStack' = <<g>> \o Callers
        /\ UNCHANGED <<resolved, toInstall, toCheck, visited, installResult>>
    BY <1>8 DEF Postpone
  <2>3. /\ g \in SolveFrames /\ g.components = Tail(Frame.components)
        /\ g.notAppended = Append(Frame.notAppended, c)
    BY <2>1, SolveFrameTurns
  <2> HIDE DEF c, g
  <2>4. TopBecomes(g)
    BY <1>1, <1>5, <2>2, <2>3, TopBecomesIs
  <2>5. Postpones(c, g)
    BY <2>1, <2>2, <2>3, <2>4 DEF Postpones, c
  <2> QED
    BY <2>1, <2>3, <2>5
<1>9. ASSUME SolvePostponed
      PROVE \E c \in Components, g \in SolveFrames, h \in ComponentFrames : Begins(c, g, h)
  <2> DEFINE c == Head(Frame.notAppended)
             g == [Frame EXCEPT !.notAppended = Tail(@)]
             h == SolveComponent(c, 0)
  <2>1. Frame \in SolveFrames /\ Frame.components = <<>> /\ Frame.notAppended # <<>>
    BY <1>3, <1>9 DEF SolvePostponed
  <2>2. /\ installStack' = <<h, g>> \o Callers
        /\ UNCHANGED <<resolved, toInstall, toCheck, visited, installResult>>
    BY <1>9 DEF SolvePostponed
  <2>3. c \in Components
    BY <2>1, RangeHeadTail DEF SolveFrames
  <2>4. /\ g \in SolveFrames /\ g.components = <<>>
        /\ g.notAppended = Tail(Frame.notAppended)
    BY <2>1, PostponedFrameTurns
  <2>5. /\ h \in ComponentFrames /\ h.component = c /\ h.version = 0
        /\ h.dependencies = CurrentDependencies(c)
    <3>1. 0 \in 0..MaxVersion
      BY ComponentAssumption
    <3> QED
      BY <2>3, <3>1, SolveComponentType
  <2> HIDE DEF c, g, h
  <2>6. TopCalls(g, h)
    BY <1>1, <1>5, <2>2, <2>4, <2>5, TopCallsIs
  <2>7. Begins(c, g, h)
    BY <2>1, <2>2, <2>3, <2>4, <2>5, <2>6 DEF Begins, c
  <2> QED
    BY <2>3, <2>4, <2>5, <2>7
<1>10. ASSUME SolveAutoDependencies PROVE Ends \/ \E g \in SolveFrames : Follows(g)
  <2>1. /\ Frame \in SolveFrames /\ Frame.components = <<>> /\ Frame.notAppended = <<>>
        /\ toCheck' = {} /\ UNCHANGED <<resolved, toInstall, visited>>
    BY <1>3, <1>10 DEF SolveAutoDependencies
  <2>2. CASE AutoDependencyComponents = {}
    <3>1. /\ installStack' = Callers
          /\ installResult' = IF Callers = <<>> THEN "solved" ELSE installResult
      BY <1>10, <2>2 DEF SolveAutoDependencies, ReturnTrue
    <3>2. TopReturns
      BY <1>1, <3>1, TopReturnsIs
    <3> QED
      BY <2>1, <2>2, <3>1, <3>2 DEF Ends
  <2>3. CASE AutoDependencyComponents # {}
    <3>1. PICK order \in Orders(AutoDependencyComponents) :
            installStack' = <<Solve(order)>> \o Callers /\ UNCHANGED installResult
      BY <1>10, <2>3 DEF SolveAutoDependencies
    <3>2. AutoDependencyComponents \subseteq Components
      BY DEF AutoDependencyComponents
    <3>3. /\ order \in Seq(Components) /\ order # <<>> /\ NoRepeat(order)
          /\ Range(order) = AutoDependencyComponents
      BY <2>3, <3>2, OrderProperties
    <3>4. /\ Solve(order) \in SolveFrames /\ Solve(order).components = order
          /\ Solve(order).notAppended = <<>>
      BY <3>3, SolveType
    <3>5. TopBecomes(Solve(order))
      BY <1>1, <1>5, <3>1, <3>4, TopBecomesIs
    <3>6. Follows(Solve(order))
      BY <2>1, <3>1, <3>3, <3>4, <3>5 DEF Follows
    <3> QED
      BY <3>4, <3>6
  <2> QED
    BY <2>2, <2>3
<1>11. ASSUME MissingDependency PROVE Fails /\ FailsFor
  BY <1>4, <1>11 DEF MissingDependency, Looking, FailInstall, Fails, FailsFor
<1>12. ASSUME RecursionDetected PROVE Fails /\ FailsFor
  BY <1>4, <1>12 DEF RecursionDetected, Looking, FailInstall, Fails, FailsFor
<1>13. ASSUME Frame \in ComponentFrames, Frame.dependencies # <<>>
       PROVE  /\ NextDependency \in ComponentFrames
              /\ NextDependency.component = Frame.component
              /\ NextDependency.version = RequiredVersion
              /\ NextDependency.dependencies = Tail(Frame.dependencies)
  <2>1. RequiredVersion \in 0..MaxVersion
    BY <1>13, RequiredVersionType
  <2> QED
    BY <1>13, <2>1, ComponentFrameTurns DEF NextDependency
<1>14. ASSUME SkipDependency PROVE \E g \in ComponentFrames : Skips(g)
  <2>1. /\ Frame \in ComponentFrames /\ Frame.dependencies # <<>>
        /\ IsFound(Dependency) /\ ~MustSolve
        /\ installStack' = <<NextDependency>> \o Callers
        /\ UNCHANGED <<resolved, toInstall, toCheck, visited, installResult>>
    BY <1>4, <1>14 DEF SkipDependency, Looking
  <2>2. Dependency \in Requirements
    BY <2>1, RequiredVersionType
  <2>3. TopBecomes(NextDependency)
    BY <1>1, <1>5, <1>13, <2>1, TopBecomesIs
  <2>4. Skips(NextDependency)
    BY <1>13, <2>1, <2>2, <2>3 DEF Skips
  <2> QED
    BY <1>13, <2>1, <2>4
<1>15. ASSUME SolveDependency PROVE \E g, h \in ComponentFrames : Descends(g, h)
  <2> DEFINE h == SolveComponent(Dependency.name, RequiredVersion)
  <2>1. /\ Frame \in ComponentFrames /\ Frame.dependencies # <<>>
        /\ IsFound(Dependency) /\ MustSolve
        /\ <<Frame.component, Dependency.name>> \notin visited
        /\ visited' = visited \cup {<<Frame.component, Dependency.name>>}
        /\ installStack' = <<h, NextDependency>> \o Callers
        /\ UNCHANGED <<resolved, toInstall, toCheck, installResult>>
    BY <1>4, <1>15 DEF SolveDependency, Looking
  <2>2. Dependency \in Requirements /\ RequiredVersion \in 0..MaxVersion
    BY <2>1, RequiredVersionType
  <2>3. /\ h \in ComponentFrames /\ h.component = Dependency.name
        /\ h.version = RequiredVersion /\ h.dependencies = CurrentDependencies(Dependency.name)
    <3>1. Dependency.name \in Components
      BY <2>2 DEF Requirements
    <3> QED
      BY <2>2, <3>1, SolveComponentType
  <2> HIDE DEF h
  <2>4. TopCalls(NextDependency, h)
    BY <1>1, <1>5, <1>13, <2>1, <2>3, TopCallsIs
  <2>5. Descends(NextDependency, h)
    BY <1>13, <2>1, <2>2, <2>3, <2>4 DEF Descends
  <2> QED
    BY <1>13, <2>1, <2>3, <2>5
<1>16. ASSUME ComponentSolved PROVE Completes
  <2>1. /\ Frame \in ComponentFrames /\ Frame.dependencies = <<>>
        /\ IF Frame.component \in toInstall
             THEN UNCHANGED <<resolved, toInstall, toCheck>>
             ELSE AddComponentForInstall(Frame.component, Frame.version)
        /\ installStack' = Callers
        /\ installResult' = IF Callers = <<>> THEN "solved" ELSE installResult
        /\ UNCHANGED visited
    BY <1>4, <1>16 DEF ComponentSolved, ReturnTrue
  <2>2. TopReturns
    BY <1>1, <2>1, TopReturnsIs
  <2> QED
    BY <2>1, <2>2 DEF Completes
<1> QED
  BY <1>1, <1>7, <1>8, <1>9, <1>10, <1>11, <1>12, <1>14, <1>15, <1>16 DEF InstallerNext

LEMMA AddType ==
  ASSUME InstallerTypeOK, NEW c \in Components, NEW v, AddComponentForInstall(c, v)
  PROVE  /\ resolved' \in Seq(Components) /\ toInstall' \in SUBSET Components
         /\ toCheck' \in SUBSET Components /\ toCheck' = toCheck \cup {c}
         /\ \/ /\ ~IsInstalled(c, v) \/ IsUpdateAvailable(c)
               /\ resolved' = Append(resolved, c) /\ toInstall' = toInstall \cup {c}
            \/ /\ IsInstalled(c, v) /\ ~IsUpdateAvailable(c)
               /\ resolved' = resolved /\ toInstall' = toInstall
  BY RangeAppend DEF InstallerTypeOK, AddComponentForInstall

LEMMA InstallerTypes ==
  ASSUME ComponentTypeOK, InstallerTypeOK, InstallerNext
  PROVE  InstallerTypeOK'
<1>1. /\ resolved \in Seq(Components) /\ toInstall \in SUBSET Components
      /\ toCheck \in SUBSET Components /\ visited \in SUBSET (Components \X Components)
      /\ installStack \in Seq(Frames) /\ installResult \in Results
      /\ <<>> \in Seq(Frames)
      /\ {"solved", "failed"} \subseteq Results
  BY DEF InstallerTypeOK, Frames, Results
<1> SUFFICES /\ resolved' \in Seq(Components) /\ toInstall' \in SUBSET Components
             /\ toCheck' \in SUBSET Components /\ visited' \in SUBSET (Components \X Components)
             /\ installStack' \in Seq(Frames) /\ installResult' \in Results
  BY DEF InstallerTypeOK, Frames
<1>2. CASE Fails
  BY <1>1, <1>2 DEF Fails
<1>3. ASSUME NEW c \in Components, NEW g \in SolveFrames, Adds(c, g)
      PROVE  /\ resolved' \in Seq(Components) /\ toInstall' \in SUBSET Components
             /\ toCheck' \in SUBSET Components /\ visited' \in SUBSET (Components \X Components)
             /\ installStack' \in Seq(Frames) /\ installResult' \in Results
  <2>1. AddComponentForInstall(c, 0)
    BY <1>3 DEF Adds
  <2> QED
    BY <1>1, <1>3, <2>1, AddType DEF Adds, TopBecomes
<1>4. ASSUME NEW c \in Components, NEW g \in SolveFrames, Postpones(c, g)
      PROVE  /\ resolved' \in Seq(Components) /\ toInstall' \in SUBSET Components
             /\ toCheck' \in SUBSET Components /\ visited' \in SUBSET (Components \X Components)
             /\ installStack' \in Seq(Frames) /\ installResult' \in Results
  BY <1>1, <1>4 DEF Postpones, TopBecomes
<1>5. ASSUME NEW c \in Components, NEW g \in SolveFrames, NEW h \in ComponentFrames, Begins(c, g, h)
      PROVE  /\ resolved' \in Seq(Components) /\ toInstall' \in SUBSET Components
             /\ toCheck' \in SUBSET Components /\ visited' \in SUBSET (Components \X Components)
             /\ installStack' \in Seq(Frames) /\ installResult' \in Results
  BY <1>1, <1>5 DEF Begins, TopCalls
<1>6. CASE Ends
  BY <1>1, <1>6 DEF Ends, TopReturns
<1>7. ASSUME NEW g \in SolveFrames, Follows(g)
      PROVE  /\ resolved' \in Seq(Components) /\ toInstall' \in SUBSET Components
             /\ toCheck' \in SUBSET Components /\ visited' \in SUBSET (Components \X Components)
             /\ installStack' \in Seq(Frames) /\ installResult' \in Results
  BY <1>1, <1>7 DEF Follows, TopBecomes
<1>8. ASSUME NEW g \in ComponentFrames, Skips(g)
      PROVE  /\ resolved' \in Seq(Components) /\ toInstall' \in SUBSET Components
             /\ toCheck' \in SUBSET Components /\ visited' \in SUBSET (Components \X Components)
             /\ installStack' \in Seq(Frames) /\ installResult' \in Results
  BY <1>1, <1>8 DEF Skips, TopBecomes
<1>9. ASSUME NEW g \in ComponentFrames, NEW h \in ComponentFrames, Descends(g, h)
      PROVE  /\ resolved' \in Seq(Components) /\ toInstall' \in SUBSET Components
             /\ toCheck' \in SUBSET Components /\ visited' \in SUBSET (Components \X Components)
             /\ installStack' \in Seq(Frames) /\ installResult' \in Results
  <2>1. Frame.component \in Components /\ Dependency.name \in Components
    BY <1>9 DEF Descends, ComponentFrames, Requirements
  <2> QED
    BY <1>1, <1>9, <2>1 DEF Descends, TopCalls
<1>10. CASE Completes
  <2>1. Frame.component \in Components
    BY <1>10 DEF Completes, ComponentFrames
  <2>2. CASE Frame.component \in toInstall
    BY <1>1, <1>10, <2>2 DEF Completes, TopReturns
  <2>3. CASE Frame.component \notin toInstall
    <3>1. AddComponentForInstall(Frame.component, Frame.version)
      BY <1>10, <2>3 DEF Completes
    <3> QED
      BY <1>1, <1>10, <2>1, <3>1, AddType DEF Completes, TopReturns
  <2> QED
    BY <2>2, <2>3
<1> QED
  BY InstallerSteps, <1>2, <1>3, <1>4, <1>5, <1>6, <1>7, <1>8, <1>9, <1>10

-----------------------------------------------------------------------------
(* The calls and lists of the calculation of the installation              *)

\* There is one call of solve(), the outermost, and it has left its first loop
\* when it calls solveComponent().
InstallCallsOK ==
  /\ installStack # <<>> <=> installResult = "running"
  /\ \A i \in DOMAIN installStack :
       /\ installStack[i].call = "solve" <=> i = Len(installStack)
       /\ i > 1 /\ i = Len(installStack) => installStack[i].components = <<>>

\* The list and the set of what is to be installed agree, and what solve() was
\* given has not been added.
ListsInStep ==
  /\ Range(resolved) = toInstall /\ NoRepeat(resolved)
  /\ \A i \in DOMAIN installStack : installStack[i].call = "solve" =>
       /\ NoRepeat(installStack[i].components)
       /\ Range(installStack[i].components) \cap toInstall = {}

LEMMA InstallPositions ==
  ASSUME ComponentTypeOK, InstallerTypeOK, InstallCallsOK, installStack # <<>>
  PROVE  /\ Len(installStack) \in Nat \ {0} /\ DOMAIN installStack = 1 .. Len(installStack)
         /\ Frame = installStack[1] /\ installResult = "running"
         /\ Frame \in SolveFrames => Len(installStack) = 1
         /\ Frame \in ComponentFrames => Len(installStack) > 1
         /\ installStack[Len(installStack)] \in SolveFrames
         /\ \A i \in 1 .. Len(installStack) - 1 :
              installStack[i] \in ComponentFrames /\ installStack[i].call = "solveComponent"
<1>1. /\ Frame = installStack[1] /\ Len(installStack) \in Nat \ {0}
      /\ DOMAIN installStack = 1 .. Len(installStack)
      /\ \A i \in DOMAIN installStack : installStack[i] \in Frames
  BY TopFrame
<1>2. /\ 1 \in DOMAIN installStack /\ Len(installStack) \in DOMAIN installStack
  BY <1>1
<1>3. \A i \in 1 .. Len(installStack) - 1 : i \in DOMAIN installStack /\ i # Len(installStack)
  <2>1. \A n \in Nat \ {0} : \A i \in 1 .. n - 1 : i \in 1 .. n /\ i # n
    OBVIOUS
  <2> QED
    BY <1>1, <2>1
<1>4. \A i \in DOMAIN installStack : installStack[i].call = "solve" <=> i = Len(installStack)
  BY DEF InstallCallsOK
<1>5. installStack[Len(installStack)] \in SolveFrames
  BY <1>1, <1>2, <1>4, FrameFields
<1>6. ASSUME NEW i \in 1 .. Len(installStack) - 1
      PROVE  installStack[i] \in ComponentFrames /\ installStack[i].call = "solveComponent"
  <2>1. installStack[i] \in Frames /\ installStack[i].call # "solve"
    BY <1>1, <1>3, <1>4
  <2> QED
    BY <2>1, FrameFields
<1>7. Frame \in SolveFrames => Frame.call = "solve"
  BY DEF SolveFrames
<1>8. Frame \in ComponentFrames => Frame.call # "solve"
  BY DEF ComponentFrames
<1>9. Frame \in ComponentFrames => Len(installStack) > 1
  BY <1>1, <1>2, <1>4, <1>8
<1>10. installResult = "running"
  BY DEF InstallCallsOK
<1> QED
  BY <1>1, <1>2, <1>4, <1>5, <1>6, <1>7, <1>9, <1>10

\* What the steps do to the shape of the stack.
LEMMA InstallCallsKept ==
  ASSUME ComponentTypeOK, InstallerTypeOK, InstallCallsOK, InstallerNext
  PROVE  InstallCallsOK'
<1> DEFINE n == Len(installStack)
<1>1. /\ installStack # <<>> /\ n \in Nat \ {0} /\ DOMAIN installStack = 1 .. n
      /\ Frame = installStack[1] /\ installResult = "running"
      /\ Frame \in SolveFrames => n = 1
      /\ Frame \in ComponentFrames => n > 1
      /\ installStack[n].call = "solve"
      /\ n > 1 => installStack[n].components = <<>>
      /\ \A i \in 1 .. n - 1 : installStack[i].call = "solveComponent"
  BY InstallerSteps, InstallPositions DEF InstallCallsOK, SolveFrames
<1>2. /\ \A f \in SolveFrames : f.call = "solve"
      /\ \A f \in ComponentFrames : f.call = "solveComponent"
  BY DEF SolveFrames, ComponentFrames
<1> HIDE DEF n
<1>3. CASE Fails
  BY <1>3 DEF Fails, InstallCallsOK
<1>4. ASSUME NEW g \in SolveFrames, n = 1, TopBecomes(g), installResult' = installResult
      PROVE  InstallCallsOK'
  <2>1. /\ installStack' # <<>> /\ DOMAIN installStack' = 1 .. 1 /\ Len(installStack') = 1
        /\ installStack'[1] = g
    BY <1>1, <1>4 DEF TopBecomes, n
  <2>2. g.call = "solve"
    BY <1>2
  <2> QED
    BY <1>1, <1>4, <2>1, <2>2 DEF InstallCallsOK
<1>5. ASSUME NEW g \in ComponentFrames, n > 1, TopBecomes(g), installResult' = installResult
      PROVE  InstallCallsOK'
  <2>1. /\ installStack' # <<>> /\ DOMAIN installStack' = 1 .. n /\ Len(installStack') = n
        /\ installStack'[1].call = "solveComponent"
        /\ \A i \in 2 .. n : installStack'[i] = installStack[i]
    BY <1>2, <1>5 DEF TopBecomes, n
  <2>2. ASSUME NEW i \in 1 .. n
        PROVE  /\ installStack'[i].call = "solve" <=> i = n
               /\ i > 1 /\ i = n => installStack'[i].components = <<>>
    <3>1. CASE i = 1
      BY <1>1, <1>5, <2>1, <3>1
    <3>2. CASE i # 1
      <4>1. i \in 2 .. n
        BY <1>1, <2>2, <3>2
      <4>2. CASE i = n
        BY <1>1, <1>5, <2>1, <4>1, <4>2
      <4>3. CASE i # n
        <5>1. i \in 1 .. n - 1
          BY <1>1, <4>1, <4>3
        <5> QED
          BY <1>1, <2>1, <4>1, <4>3, <5>1
      <4> QED
        BY <4>2, <4>3
    <3> QED
      BY <3>1, <3>2
  <2> QED
    BY <1>1, <1>5, <2>1, <2>2 DEF InstallCallsOK
<1>6. ASSUME NEW g, NEW h \in ComponentFrames, TopCalls(g, h),
             \/ g \in ComponentFrames /\ n > 1
             \/ g \in SolveFrames /\ n = 1 /\ g.components = <<>>,
             installResult' = installResult
      PROVE  InstallCallsOK'
  <2>1. /\ installStack' # <<>> /\ DOMAIN installStack' = 1 .. n + 1
        /\ Len(installStack') = n + 1
        /\ installStack'[1].call = "solveComponent" /\ installStack'[2] = g
        /\ \A i \in 3 .. n + 1 : installStack'[i] = installStack[i - 1]
    BY <1>2, <1>6 DEF TopCalls, n
  <2>2. ASSUME NEW i \in 1 .. n + 1
        PROVE  /\ installStack'[i].call = "solve" <=> i = n + 1
               /\ i > 1 /\ i = n + 1 => installStack'[i].components = <<>>
    <3>1. CASE i = 1
      BY <1>1, <2>1, <3>1
    <3>2. CASE i = 2
      BY <1>1, <1>2, <1>6, <2>1, <3>2
    <3>3. CASE i \notin {1, 2}
      <4>1. i \in 3 .. n + 1 /\ i - 1 \in 2 .. n
        BY <1>1, <2>2, <3>3
      <4>2. CASE i = n + 1
        BY <1>1, <1>6, <2>1, <4>1, <4>2
      <4>3. CASE i # n + 1
        <5>1. i - 1 \in 1 .. n - 1
          BY <1>1, <4>1, <4>3
        <5> QED
          BY <1>1, <2>1, <4>1, <4>3, <5>1
      <4> QED
        BY <4>2, <4>3
    <3> QED
      BY <3>1, <3>2, <3>3
  <2> QED
    BY <1>1, <1>6, <2>1, <2>2 DEF InstallCallsOK
<1>7. ASSUME n > 1, TopReturns, installResult' = installResult PROVE InstallCallsOK'
  <2>1. /\ installStack' # <<>> /\ DOMAIN installStack' = 1 .. n - 1
        /\ Len(installStack') = n - 1
        /\ \A i \in 1 .. n - 1 : installStack'[i] = installStack[i + 1]
    BY <1>1, <1>7 DEF TopReturns, n
  <2>2. ASSUME NEW i \in 1 .. n - 1
        PROVE  /\ installStack'[i].call = "solve" <=> i = n - 1
               /\ i > 1 /\ i = n - 1 => installStack'[i].components = <<>>
    <3>1. CASE i = n - 1
      <4>1. installStack'[i] = installStack[n]
        BY <1>1, <2>1, <2>2, <3>1
      <4> QED
        BY <1>1, <1>7, <3>1, <4>1
    <3>2. CASE i # n - 1
      <4>1. i + 1 \in 1 .. n - 1 /\ installStack'[i] = installStack[i + 1]
        BY <1>1, <2>1, <2>2, <3>2
      <4> QED
        BY <1>1, <3>2, <4>1
    <3> QED
      BY <3>1, <3>2
  <2> QED
    BY <1>1, <1>7, <2>1, <2>2 DEF InstallCallsOK
<1>8. CASE Ends
  <2>1. n = 1 /\ installStack' = <<>> /\ installResult' = "solved"
    BY <1>1, <1>8 DEF Ends, TopReturns, n
  <2> QED
    BY <2>1 DEF InstallCallsOK
<1>9. CASE Completes
  <2>1. n > 1 /\ installStack' # <<>> /\ TopReturns /\ installResult' = installResult
    BY <1>1, <1>9 DEF Completes, TopReturns, n
  <2> QED
    BY <1>7, <2>1
<1>10. ASSUME NEW c \in Components, NEW g \in SolveFrames, Adds(c, g) \/ Postpones(c, g)
       PROVE  InstallCallsOK'
  BY <1>1, <1>4, <1>10 DEF Adds, Postpones
<1>11. ASSUME NEW c \in Components, NEW g \in SolveFrames, NEW h \in ComponentFrames, Begins(c, g, h)
       PROVE  InstallCallsOK'
  BY <1>1, <1>6, <1>11 DEF Begins
<1>12. ASSUME NEW g \in SolveFrames, Follows(g) PROVE InstallCallsOK'
  BY <1>1, <1>4, <1>12 DEF Follows
<1>13. ASSUME NEW g \in ComponentFrames, Skips(g) PROVE InstallCallsOK'
  BY <1>1, <1>5, <1>13 DEF Skips
<1>14. ASSUME NEW g \in ComponentFrames, NEW h \in ComponentFrames, Descends(g, h)
       PROVE  InstallCallsOK'
  BY <1>1, <1>6, <1>14 DEF Descends
<1> QED
  BY InstallerSteps, <1>3, <1>8, <1>9, <1>10, <1>11, <1>12, <1>13, <1>14

\* Adding a component that was not there.
LEMMA AddKeepsLists ==
  ASSUME InstallerTypeOK, NEW c \in Components, NEW v, AddComponentForInstall(c, v),
         c \notin toInstall, Range(resolved) = toInstall, NoRepeat(resolved)
  PROVE  Range(resolved)' = toInstall' /\ NoRepeat(resolved)'
<1>1. resolved \in Seq(Components)
  BY DEF InstallerTypeOK
<1>2. /\ Range(Append(resolved, c)) = Range(resolved) \cup {c}
      /\ NoRepeat(Append(resolved, c))
  BY <1>1, RangeAppend
<1> QED
  BY <1>2, AddType

LEMMA ListsKept ==
  ASSUME ComponentTypeOK, InstallerTypeOK, InstallCallsOK, ListsInStep, InstallerNext
  PROVE  ListsInStep'
<1> DEFINE n == Len(installStack)
<1>1. /\ installStack # <<>> /\ n \in Nat \ {0} /\ DOMAIN installStack = 1 .. n
      /\ Frame = installStack[1]
      /\ Frame \in SolveFrames => n = 1
      /\ Frame \in ComponentFrames => n > 1
  BY InstallerSteps, InstallPositions
<1>2. InstallCallsOK'
  BY InstallCallsKept
<1>3. /\ Range(resolved) = toInstall /\ NoRepeat(resolved)
      /\ 1 \in DOMAIN installStack
      /\ Frame \in SolveFrames => /\ Frame.call = "solve" /\ NoRepeat(Frame.components)
                                  /\ Range(Frame.components) \cap toInstall = {}
                                  /\ Frame.components \in Seq(Components)
  BY <1>1 DEF ListsInStep, SolveFrames
<1>4. Range(<<>>) = {} /\ NoRepeat(<<>>)
  BY DEF Range, NoRepeat
<1> HIDE DEF n
<1>5. ASSUME NEW g \in SolveFrames, n = 1, TopBecomes(g),
             Range(resolved)' = toInstall' /\ NoRepeat(resolved)',
             NoRepeat(g.components), Range(g.components) \cap toInstall' = {}
      PROVE  ListsInStep'
  <2>1. DOMAIN installStack' = 1 .. 1 /\ installStack'[1] = g
    BY <1>1, <1>5 DEF TopBecomes, n
  <2> QED
    BY <1>5, <2>1 DEF ListsInStep
<1>6. ASSUME Range(resolved)' = toInstall' /\ NoRepeat(resolved)', Len(installStack') # 1
      PROVE  ListsInStep'
  <2>1. ASSUME NEW i \in DOMAIN installStack', installStack'[i].call = "solve"
        PROVE  installStack'[i].components = <<>>
    <3>1. installStack' \in Seq(Frames)
      BY InstallerTypes DEF InstallerTypeOK, Frames
    <3>2. DOMAIN installStack' = 1 .. Len(installStack') /\ Len(installStack') \in Nat
      BY <3>1, RangeType
    <3>3. i = Len(installStack')
      BY <1>2, <2>1 DEF InstallCallsOK
    <3> QED
      BY <1>2, <1>6, <2>1, <3>2, <3>3 DEF InstallCallsOK
  <2> QED
    BY <1>4, <1>6, <2>1 DEF ListsInStep
<1>7. ASSUME Range(resolved)' = toInstall' /\ NoRepeat(resolved)', n > 1, TopReturns
      PROVE  ListsInStep'
  <2>1. /\ DOMAIN installStack' = 1 .. n - 1
        /\ \A i \in 1 .. n - 1 : installStack'[i] = installStack[i + 1]
    BY <1>7 DEF TopReturns, n
  <2>2. ASSUME NEW i \in DOMAIN installStack', installStack'[i].call = "solve"
        PROVE  installStack'[i].components = <<>>
    <3>1. i + 1 \in 1 .. n /\ i + 1 > 1 /\ installStack'[i] = installStack[i + 1]
      BY <1>1, <2>1, <2>2
    <3> QED
      BY <1>1, <2>2, <3>1 DEF InstallCallsOK, n
  <2> QED
    BY <1>4, <1>7, <2>2 DEF ListsInStep
<1>8. CASE Fails
  BY <1>3, <1>8 DEF Fails, ListsInStep
<1>9. ASSUME NEW c \in Components, NEW g \in SolveFrames, Adds(c, g) PROVE ListsInStep'
  <2>1. /\ n = 1 /\ TopBecomes(g) /\ Frame \in SolveFrames /\ Frame.components # <<>>
        /\ AddComponentForInstall(c, 0) /\ c \notin toInstall
        /\ c = Head(Frame.components) /\ g.components = Tail(Frame.components)
    BY <1>1, <1>9 DEF Adds
  <2>2. /\ Range(Frame.components) = {c} \cup Range(g.components)
        /\ NoRepeat(g.components) /\ c \notin Range(g.components)
    BY <1>3, <2>1, RangeHeadTail
  <2>3. Range(resolved)' = toInstall' /\ NoRepeat(resolved)'
    BY <1>3, <2>1, AddKeepsLists
  <2>4. Range(g.components) \cap toInstall' = {}
    BY <1>3, <2>1, <2>2, AddType
  <2> QED
    BY <1>5, <2>1, <2>2, <2>3, <2>4
<1>10. ASSUME NEW c \in Components, NEW g \in SolveFrames, Postpones(c, g) PROVE ListsInStep'
  <2>1. /\ n = 1 /\ TopBecomes(g) /\ Frame \in SolveFrames /\ Frame.components # <<>>
        /\ c = Head(Frame.components) /\ g.components = Tail(Frame.components)
        /\ resolved' = resolved /\ toInstall' = toInstall
    BY <1>1, <1>10 DEF Postpones
  <2>2. /\ Range(Frame.components) = {c} \cup Range(g.components)
        /\ NoRepeat(g.components)
    BY <1>3, <2>1, RangeHeadTail
  <2> QED
    BY <1>3, <1>5, <2>1, <2>2
<1>11. ASSUME NEW c \in Components, NEW g \in SolveFrames, NEW h \in ComponentFrames, Begins(c, g, h)
       PROVE  ListsInStep'
  <2>1. resolved' = resolved /\ toInstall' = toInstall /\ Len(installStack') = n + 1
    BY <1>11 DEF Begins, TopCalls, n
  <2> QED
    BY <1>1, <1>3, <1>6, <2>1
<1>12. CASE Ends
  <2>1. resolved' = resolved /\ toInstall' = toInstall /\ installStack' = <<>>
    BY <1>1, <1>12 DEF Ends, TopReturns, n
  <2> QED
    BY <1>3, <2>1 DEF ListsInStep
<1>13. ASSUME NEW g \in SolveFrames, Follows(g) PROVE ListsInStep'
  <2>1. /\ n = 1 /\ TopBecomes(g) /\ Range(g.components) = AutoDependencyComponents
        /\ NoRepeat(g.components) /\ resolved' = resolved /\ toInstall' = toInstall
    BY <1>1, <1>13 DEF Follows
  <2>2. AutoDependencyComponents \cap toInstall = {}
    BY DEF AutoDependencyComponents
  <2> QED
    BY <1>3, <1>5, <2>1, <2>2
<1>14. ASSUME NEW g \in ComponentFrames, Skips(g) PROVE ListsInStep'
  <2>1. resolved' = resolved /\ toInstall' = toInstall /\ Len(installStack') = n /\ n > 1
    BY <1>1, <1>14 DEF Skips, TopBecomes, n
  <2> QED
    BY <1>1, <1>3, <1>6, <2>1
<1>15. ASSUME NEW g \in ComponentFrames, NEW h \in ComponentFrames, Descends(g, h)
       PROVE  ListsInStep'
  <2>1. resolved' = resolved /\ toInstall' = toInstall /\ Len(installStack') = n + 1
    BY <1>15 DEF Descends, TopCalls, n
  <2> QED
    BY <1>1, <1>3, <1>6, <2>1
<1>16. CASE Completes
  <2>1. n > 1 /\ TopReturns /\ Frame.component \in Components
    BY <1>1, <1>16 DEF Completes, ComponentFrames
  <2>2. Range(resolved)' = toInstall' /\ NoRepeat(resolved)'
    <3>1. CASE Frame.component \in toInstall
      BY <1>3, <1>16, <3>1 DEF Completes
    <3>2. CASE Frame.component \notin toInstall
      BY <1>3, <1>16, <2>1, <3>2, AddKeepsLists DEF Completes
    <3> QED
      BY <3>1, <3>2
  <2> QED
    BY <1>7, <2>1, <2>2
<1> QED
  BY InstallerSteps, <1>8, <1>9, <1>10, <1>11, <1>12, <1>13, <1>14, <1>15, <1>16

-----------------------------------------------------------------------------
(* What solve() has still to do                                            *)

\* The components a call stands for.
Of(f) ==
  IF f.call = "solve" THEN Range(f.components) \cup Range(f.notAppended)
                      ELSE {f.component}

Pending == {c \in Components : \E i \in DOMAIN installStack : c \in Of(installStack[i])}

\* The step has come to the end of what it does for c.
Handles(c) ==
  \/ \E g \in SolveFrames : Adds(c, g)
  \/ Completes /\ c = Frame.component

LEMMA PendingKept ==
  ASSUME ComponentTypeOK, InstallerTypeOK, InstallCallsOK, InstallerNext,
         installResult' # "failed", NEW c \in Pending
  PROVE  c \in Pending' \/ Handles(c)
<1> DEFINE n == Len(installStack)
<1>1. /\ installStack # <<>> /\ n \in Nat \ {0} /\ DOMAIN installStack = 1 .. n
      /\ Frame = installStack[1]
      /\ Frame \in SolveFrames => n = 1
      /\ Frame \in ComponentFrames => n > 1
  BY InstallerSteps, InstallPositions
<1>2. PICK i \in 1 .. n : c \in Of(installStack[i])
  BY <1>1 DEF Pending
<1>3. c \in Components
  BY DEF Pending
<1>4. /\ \A f \in SolveFrames : /\ f.call = "solve"
                                /\ f.components \in Seq(Components)
                                /\ f.notAppended \in Seq(Components)
      /\ \A f \in ComponentFrames : f.call = "solveComponent"
  BY DEF SolveFrames, ComponentFrames
<1> HIDE DEF n
<1>5. i = 1 \/ i \in 2 .. n
  BY <1>1
<1>6. \A j \in DOMAIN installStack' : c \in Of(installStack'[j]) => c \in Pending'
  BY <1>3 DEF Pending, Of
<1>7. ASSUME NEW g, TopBecomes(g), i = 1 => c \in Of(g) PROVE c \in Pending'
  <2>1. /\ DOMAIN installStack' = 1 .. n /\ installStack'[1] = g
        /\ \A j \in 2 .. n : installStack'[j] = installStack[j]
    BY <1>7 DEF TopBecomes, n
  <2> QED
    BY <1>1, <1>2, <1>5, <1>6, <1>7, <2>1
<1>8. ASSUME NEW g, NEW h, TopCalls(g, h), i = 1 => c \in Of(g) \cup Of(h) PROVE c \in Pending'
  <2>1. /\ DOMAIN installStack' = 1 .. n + 1 /\ installStack'[1] = h /\ installStack'[2] = g
        /\ \A j \in 3 .. n + 1 : installStack'[j] = installStack[j - 1]
    BY <1>8 DEF TopCalls, n
  <2>2. CASE i = 1
    <3>1. 1 \in DOMAIN installStack' /\ 2 \in DOMAIN installStack'
      BY <1>1, <2>1
    <3> QED
      BY <1>6, <1>8, <2>1, <2>2, <3>1
  <2>3. CASE i \in 2 .. n
    <3>1. i + 1 \in 3 .. n + 1 /\ i + 1 - 1 = i /\ i + 1 \in DOMAIN installStack'
      BY <1>1, <2>1, <2>3
    <3>2. installStack'[i + 1] = installStack[i]
      BY <2>1, <3>1
    <3> QED
      BY <1>2, <1>6, <3>1, <3>2
  <2> QED
    BY <1>5, <2>2, <2>3
<1>9. ASSUME NEW d \in Components, NEW g \in SolveFrames, Adds(d, g) PROVE c \in Pending' \/ Handles(c)
  <2>1. /\ n = 1 /\ TopBecomes(g) /\ Frame \in SolveFrames /\ Frame.components # <<>>
        /\ d = Head(Frame.components) /\ g.components = Tail(Frame.components)
        /\ g.notAppended = Frame.notAppended
    BY <1>1, <1>9 DEF Adds
  <2>2. Range(Frame.components) = {d} \cup Range(g.components)
    BY <1>4, <2>1, RangeHeadTail
  <2>3. CASE c = d
    BY <1>9, <2>3 DEF Handles
  <2>4. CASE c # d
    <3>1. c \in Of(Frame)
      BY <1>1, <1>2, <2>1
    <3>2. c \in Of(g)
      BY <1>4, <2>1, <2>2, <2>4, <3>1 DEF Of
    <3> QED
      BY <1>7, <2>1, <3>2
  <2> QED
    BY <2>3, <2>4
<1>10. ASSUME NEW d \in Components, NEW g \in SolveFrames, Postpones(d, g) PROVE c \in Pending'
  <2>1. /\ n = 1 /\ TopBecomes(g) /\ Frame \in SolveFrames /\ Frame.components # <<>>
        /\ d = Head(Frame.components) /\ g.components = Tail(Frame.components)
        /\ g.notAppended = Append(Frame.notAppended, d)
    BY <1>1, <1>10 DEF Postpones
  <2>2. Range(Frame.components) = {d} \cup Range(g.components)
    BY <1>4, <2>1, RangeHeadTail
  <2>3. Range(g.notAppended) = Range(Frame.notAppended) \cup {d}
    BY <1>4, <2>1, RangeAppend
  <2>4. c \in Of(Frame)
    BY <1>1, <1>2, <2>1
  <2>5. c \in Of(g)
    BY <1>4, <2>1, <2>2, <2>3, <2>4 DEF Of
  <2> QED
    BY <1>7, <2>1, <2>5
<1>11. ASSUME NEW d \in Components, NEW g \in SolveFrames, NEW h \in ComponentFrames, Begins(d, g, h)
       PROVE  c \in Pending'
  <2>1. /\ n = 1 /\ TopCalls(g, h) /\ Frame \in SolveFrames /\ Frame.components = <<>>
        /\ Frame.notAppended # <<>> /\ d = Head(Frame.notAppended)
        /\ g.components = <<>> /\ g.notAppended = Tail(Frame.notAppended)
        /\ h.component = d
    BY <1>1, <1>11 DEF Begins
  <2>2. Range(Frame.notAppended) = {d} \cup Range(g.notAppended)
    BY <1>4, <2>1, RangeHeadTail
  <2>3. c \in Of(Frame)
    BY <1>1, <1>2, <2>1
  <2>4. c \in Of(g) \cup Of(h)
    BY <1>4, <2>1, <2>2, <2>3 DEF Of
  <2> QED
    BY <1>8, <2>1, <2>4
<1>12. CASE Ends \/ \E g \in SolveFrames : Follows(g)
  <2>1. n = 1 /\ Frame \in SolveFrames /\ Frame.components = <<>> /\ Frame.notAppended = <<>>
    BY <1>1, <1>12 DEF Ends, Follows
  <2>2. Of(Frame) = {}
    BY <1>4, <2>1 DEF Of, Range
  <2> QED
    BY <1>1, <1>2, <2>1, <2>2
<1>13. ASSUME NEW g \in ComponentFrames, Skips(g) PROVE c \in Pending'
  <2>1. TopBecomes(g) /\ Frame \in ComponentFrames /\ g.component = Frame.component
    BY <1>13 DEF Skips
  <2>2. i = 1 => c \in Of(g)
    BY <1>1, <1>2, <1>4, <2>1 DEF Of
  <2> QED
    BY <1>7, <2>1, <2>2
<1>14. ASSUME NEW g \in ComponentFrames, NEW h \in ComponentFrames, Descends(g, h)
       PROVE  c \in Pending'
  <2>1. TopCalls(g, h) /\ Frame \in ComponentFrames /\ g.component = Frame.component
    BY <1>14 DEF Descends
  <2>2. i = 1 => c \in Of(g)
    BY <1>1, <1>2, <1>4, <2>1 DEF Of
  <2> QED
    BY <1>8, <2>1, <2>2
<1>15. CASE Completes
  <2>1. /\ n > 1 /\ Frame \in ComponentFrames
        /\ DOMAIN installStack' = 1 .. n - 1
        /\ \A j \in 1 .. n - 1 : installStack'[j] = installStack[j + 1]
    BY <1>1, <1>15 DEF Completes, TopReturns, n
  <2>2. CASE i = 1
    BY <1>1, <1>2, <1>4, <1>15, <2>1, <2>2 DEF Of, Handles
  <2>3. CASE i \in 2 .. n
    <3>1. i - 1 \in 1 .. n - 1 /\ i - 1 + 1 = i
      BY <1>1, <2>3
    <3>2. installStack'[i - 1] = installStack[i] /\ i - 1 \in DOMAIN installStack'
      BY <2>1, <3>1
    <3> QED
      BY <1>2, <1>6, <3>2
  <2> QED
    BY <1>5, <2>2, <2>3
<1>16. ~Fails
  BY DEF Fails
<1> QED
  BY InstallerSteps, <1>9, <1>10, <1>11, <1>12, <1>13, <1>14, <1>15, <1>16

-----------------------------------------------------------------------------
(* Automatic components                                                    *)

\* All that a depends on automatically is there, some of it because it was added.
AutomaticDue(a) ==
  /\ installed[a] = 0
  /\ product.autoDependOn[a] \subseteq toInstall \cup InstalledSet
  /\ product.autoDependOn[a] \cap toInstall # {}

\* An automatic component that is due has been added, or will be, or the next
\* check will find it by one of the components that were added since the last.
AutomaticInStep ==
  mode # "Updater" =>
    \A a \in Components : AutomaticDue(a) =>
      /\ installResult = "running" =>
           \/ a \in toInstall \cup Pending
           \/ product.autoDependOn[a] \cap toInstall \cap toCheck # {}
      /\ installResult = "solved" => a \in toInstall

\* What a step adds is remembered for the check.
LEMMA HandledIsAdded ==
  ASSUME ComponentTypeOK, InstallerTypeOK, NEW c \in Components, Handles(c)
  PROVE  /\ toInstall' \subseteq toInstall \cup {c} /\ toInstall \subseteq toInstall'
         /\ toCheck \subseteq toCheck'
         /\ c \in toInstall' => c \in toInstall \/ c \in toCheck'
         /\ installed[c] = 0 => c \in toInstall'
         /\ c \in toInstall' \/ /\ installed[c] # 0 /\ ~IsUpdateAvailable(c)
                                /\ Completes => ~WillAdd(Frame)
<1>1. \A v : ~IsInstalled(c, v) \/ installed[c] # 0 \/ v # 0
  BY DEF IsInstalled
<1>2. \A v : installed[c] = 0 => ~IsInstalled(c, v)
  BY DEF IsInstalled
<1>3. ASSUME NEW g \in SolveFrames, Adds(c, g)
      PROVE  AddComponentForInstall(c, 0) /\ Frame \in SolveFrames
  BY <1>3 DEF Adds
<1>4. SolveFrames \cap ComponentFrames = {}
  BY DEF SolveFrames, ComponentFrames
<1>5. CASE \E g \in SolveFrames : Adds(c, g)
  <2>1. AddComponentForInstall(c, 0) /\ ~Completes
    BY <1>3, <1>4, <1>5 DEF Completes
  <2> QED
    BY <1>1, <1>2, <2>1, AddType
<1>6. CASE Completes /\ c = Frame.component
  <2>1. CASE c \in toInstall
    BY <1>6, <2>1 DEF Completes
  <2>2. CASE c \notin toInstall
    <3>1. AddComponentForInstall(c, Frame.version)
      BY <1>6, <2>2 DEF Completes
    <3> QED
      BY <1>2, <1>6, <3>1, AddType DEF WillAdd
  <2> QED
    BY <2>1, <2>2
<1> QED
  BY <1>5, <1>6 DEF Handles

LEMMA StepsAdd ==
  ASSUME ComponentTypeOK, InstallerTypeOK, InstallerNext
  PROVE  \/ \E c \in Components : Handles(c)
         \/ /\ UNCHANGED <<resolved, toInstall, toCheck>>
            /\ installResult' \in {installResult, "failed"}
            /\ ~\E c \in Components : Handles(c)
         \/ Ends \/ \E g \in SolveFrames : Follows(g)
<1>1. \A c, g : Adds(c, g) /\ g \in SolveFrames => Handles(c)
  BY DEF Handles
<1>2. Completes => Frame.component \in Components /\ Handles(Frame.component)
  BY DEF Handles, Completes, ComponentFrames
<1>3. Fails => UNCHANGED <<resolved, toInstall, toCheck>> /\ installResult' = "failed"
  BY DEF Fails
<1>4. \A c, g : Postpones(c, g) => UNCHANGED <<resolved, toInstall, toCheck, installResult>>
  BY DEF Postpones
<1>5. \A c, g, h : Begins(c, g, h) => UNCHANGED <<resolved, toInstall, toCheck, installResult>>
  BY DEF Begins
<1>6. \A g : Skips(g) => UNCHANGED <<resolved, toInstall, toCheck, installResult>>
  BY DEF Skips
<1>7. \A g, h : Descends(g, h) => UNCHANGED <<resolved, toInstall, toCheck, installResult>>
  BY DEF Descends
<1> QED
  BY InstallerSteps, <1>1, <1>2, <1>3, <1>4, <1>5, <1>6, <1>7

LEMMA AutomaticKept ==
  ASSUME ComponentTypeOK, InstallerTypeOK, InstallCallsOK, AutomaticInStep, InstallerNext,
         UNCHANGED componentVars
  PROVE  AutomaticInStep'
<1> SUFFICES ASSUME mode # "Updater", NEW a \in Components, AutomaticDue(a)',
                    installResult' # "failed"
             PROVE  /\ installResult' = "running" =>
                         \/ a \in toInstall' \cup Pending'
                         \/ product.autoDependOn[a] \cap toInstall' \cap toCheck' # {}
                    /\ installResult' = "solved" => a \in toInstall'
  BY DEF AutomaticInStep, componentVars
<1> DEFINE D == product.autoDependOn[a]
<1>1. /\ installed[a] = 0 /\ D \subseteq toInstall' \cup InstalledSet /\ D \cap toInstall' # {}
      /\ D \subseteq Components
  BY DEF AutomaticDue, componentVars, InstalledSet, ComponentTypeOK, ProductType
<1>2. installStack # <<>> /\ installResult = "running"
  BY InstallerSteps DEF InstallCallsOK
<1>3. /\ D \subseteq toInstall \cup InstalledSet /\ D \cap toInstall # {} =>
           a \in toInstall \cup Pending \/ D \cap toInstall \cap toCheck # {}
      /\ installed[a] = 0
  BY <1>1, <1>2 DEF AutomaticInStep, AutomaticDue
<1>4. ASSUME a \in Pending PROVE a \in Pending' \/ Handles(a)
  BY <1>4, PendingKept
<1> HIDE DEF D
<1>5. ASSUME NEW c \in Components, Handles(c)
      PROVE  a \in toInstall' \cup Pending' \/ D \cap toInstall' \cap toCheck' # {}
  <2>1. /\ toInstall' \subseteq toInstall \cup {c} /\ toInstall \subseteq toInstall'
        /\ toCheck \subseteq toCheck'
        /\ c \in toInstall' => c \in toInstall \/ c \in toCheck'
    BY <1>5, HandledIsAdded
  <2>2. CASE toInstall' = toInstall
    <3>1. CASE a \in Pending
      <4>1. Handles(a) => a \in toInstall'
        BY <1>1, HandledIsAdded
      <4> QED
        BY <1>4, <3>1, <4>1
    <3> QED
      BY <1>1, <1>3, <2>1, <2>2, <3>1
  <2>3. CASE toInstall' # toInstall
    <3>1. c \in toInstall' /\ c \in toCheck'
      BY <2>1, <2>3
    <3>2. CASE c \in D
      BY <3>1, <3>2
    <3>3. CASE c \notin D
      <4>1. D \subseteq toInstall \cup InstalledSet /\ D \cap toInstall # {}
        BY <1>1, <2>1, <3>3
      <4>2. CASE a \in Pending
        <5>1. Handles(a) => a \in toInstall'
          BY <1>1, HandledIsAdded
        <5> QED
          BY <1>4, <4>2, <5>1
      <4> QED
        BY <1>3, <2>1, <4>1, <4>2
    <3> QED
      BY <3>2, <3>3
  <2> QED
    BY <2>2, <2>3
<1>6. ASSUME NEW c \in Components, Handles(c) PROVE installResult' = "running"
  <2>1. CASE \E g \in SolveFrames : Adds(c, g)
    BY <1>2, <2>1 DEF Adds
  <2>2. CASE Completes
    <3>1. Len(installStack) > 1 /\ Len(installStack) \in Nat
      BY <1>2, <2>2, InstallPositions DEF Completes
    <3> QED
      BY <1>2, <2>2, <3>1 DEF Completes, TopReturns
  <2> QED
    BY <1>6, <2>1, <2>2 DEF Handles
<1>7. CASE UNCHANGED <<resolved, toInstall, toCheck>> /\ installResult' \in {installResult, "failed"}
           /\ ~\E c \in Components : Handles(c)
  BY <1>1, <1>2, <1>3, <1>4, <1>7 DEF D
<1>8. ASSUME Frame \in SolveFrames, Frame.components = <<>>, Frame.notAppended = <<>>,
             UNCHANGED toInstall
      PROVE  a \in toInstall \cup AutoDependencyComponents
  <2>1. Pending = {}
    <3>1. /\ Len(installStack) = 1 /\ DOMAIN installStack = 1 .. Len(installStack)
          /\ Frame = installStack[1]
      BY <1>2, <1>8, InstallPositions
    <3>2. Frame.call = "solve" /\ Of(Frame) = {}
      BY <1>8 DEF Of, Range, SolveFrames
    <3>3. \A i \in DOMAIN installStack : i = 1
      BY <3>1
    <3> QED
      BY <3>1, <3>2, <3>3 DEF Pending
  <2>2. a \in toInstall \/ D \cap toInstall \cap toCheck # {}
    BY <1>1, <1>3, <1>8, <2>1
  <2>3. CASE a \notin toInstall
    <3>1. PICK c \in D \cap toCheck : TRUE
      BY <2>2, <2>3
    <3>2. IsAutoDependOn(a, toInstall)
      BY <1>1, <1>8, <3>1 DEF IsAutoDependOn, D
    <3>3. c \in toCheck \cap product.autoDependOn[a] /\ (mode = "Updater" => UpdateRequested(c))
      BY <3>1 DEF D
    <3> QED
      BY <1>1, <2>3, <3>2, <3>3 DEF AutoDependencyComponents
  <2> QED
    BY <2>3
<1>9. CASE Ends
  <2>1. a \in toInstall'
    BY <1>8, <1>9 DEF Ends
  <2> QED
    BY <2>1
<1>10. ASSUME NEW g \in SolveFrames, Follows(g)
       PROVE  a \in toInstall' \cup Pending' /\ installResult' = "running"
  <2>1. /\ a \in toInstall \cup AutoDependencyComponents /\ toInstall' = toInstall
        /\ Range(g.components) = AutoDependencyComponents /\ TopBecomes(g)
        /\ installResult' = installResult
    BY <1>8, <1>10 DEF Follows
  <2>2. 1 \in DOMAIN installStack' /\ installStack'[1] = g
    <3>1. Len(installStack) \in Nat \ {0}
      BY <1>2, InstallPositions
    <3> QED
      BY <2>1, <3>1 DEF TopBecomes
  <2>3. g.call = "solve"
    BY DEF SolveFrames
  <2>4. CASE a \in Range(g.components)
    <3>1. \E i \in DOMAIN installStack' : a \in (IF installStack'[i].call = "solve"
             THEN Range(installStack'[i].components) \cup Range(installStack'[i].notAppended)
             ELSE {installStack'[i].component})
      BY <2>2, <2>3, <2>4
    <3> QED
      BY <1>2, <2>1, <3>1 DEF Pending, Of
  <2> QED
    BY <1>2, <2>1, <2>4
<1> QED
  BY StepsAdd, <1>2, <1>5, <1>6, <1>7, <1>9, <1>10 DEF D

-----------------------------------------------------------------------------
(* Dependencies                                                            *)

InstalledMeets(r) == installed[r.name] # 0 /\ VersionMatches(installed[r.name], r)

Met(r) == r.name \in toInstall \/ InstalledMeets(r)

Resolvable(c) == \A r \in Range(CurrentDependencies(c)) : IsFound(r) /\ Met(r)

\* What the loop of call number i has passed is met, unless its component was
\* added meanwhile, or it waits for the call that will add it.
LoopOK(i, stack, added) ==
  LET f == stack[i] IN
  /\ Range(f.dependencies) \subseteq Range(CurrentDependencies(f.component))
  /\ \A r \in Range(CurrentDependencies(f.component)) \ Range(f.dependencies) :
       /\ IsFound(r)
       /\ \/ r.name \in added \/ InstalledMeets(r) \/ f.component \in added
          \/ i > 1 /\ stack[i - 1].component = r.name /\ WillAdd(stack[i - 1])

\* What stands on the list has all it needs in front of it.
OrderOK(list) ==
  \A i \in DOMAIN list : \A r \in Range(CurrentDependencies(list[i])) :
    /\ IsFound(r)
    /\ InstalledMeets(r) \/ \E j \in 1..(i - 1) : list[j] = r.name

DependenciesInStep ==
  /\ \A i \in DOMAIN installStack :
       installStack[i].call = "solveComponent" => LoopOK(i, installStack, toInstall)
  /\ OrderOK(resolved)

\* Nothing that stays as it is wants something newer than what is installed.
LEMMA NoLocalUpdate ==
  ASSUME ComponentTypeOK, Outdated(installed) = {}, NEW c \in Components,
         installed[c] # 0, ~UpdateRequested(c), NEW r \in Range(CurrentDependencies(c))
  PROVE  ~IsUpdateRequired(r)
<1> SUFFICES ASSUME IsUpdateRequired(r) PROVE FALSE
  OBVIOUS
<1>1. CurrentDependencies(c) = product.dependencies[c][installed[c]]
  BY DEF CurrentDependencies, LocalDependencies
<1>2. r \in Requirements
  BY DependencyTypes
<1>3. r.name \in Components /\ r.version \in 0..MaxVersion /\ installed[r.name] \in 0..MaxVersion
  BY <1>2 DEF Requirements, ComponentTypeOK
<1>4. MaxVersion \in Nat
  BY ComponentAssumption
<1>5. installed[r.name] # 0 /\ ~(r.version <= installed[r.name])
  BY <1>3, <1>4 DEF IsUpdateRequired
<1> DEFINE m == <<c, r>>
<1>6. m \in Components \X Requirements /\ m[1] = c /\ m[2] = r
  BY <1>2
<1>7. m \in Missing(installed)
  BY <1>1, <1>5, <1>6 DEF Missing, VersionMatches
<1>8. m \in Outdated(installed)
  BY <1>5, <1>6, <1>7 DEF Outdated
<1> QED
  BY <1>8

\* So a call goes on to add, or not to add, what it is for.
LEMMA WillAddStays ==
  ASSUME ComponentTypeOK, Outdated(installed) = {}, Frame \in ComponentFrames,
         Frame.dependencies # <<>>,
         Range(Frame.dependencies) \subseteq Range(CurrentDependencies(Frame.component)),
         NEW g, g.component = Frame.component, g.version = RequiredVersion
  PROVE  WillAdd(g) <=> WillAdd(Frame)
<1> DEFINE c == Frame.component
<1>1. c \in Components /\ Dependency \in Range(CurrentDependencies(c))
  BY RangeHeadTail DEF ComponentFrames, Dependency
<1>2. CASE installed[c] = 0
  BY <1>2 DEF WillAdd, IsInstalled
<1>3. CASE UpdateRequested(c)
  BY <1>3 DEF WillAdd, UpdateRequested
<1>4. CASE installed[c] # 0 /\ ~UpdateRequested(c)
  <2>1. ~IsUpdateRequired(Dependency)
    BY <1>1, <1>4, NoLocalUpdate
  <2> QED
    BY <2>1 DEF WillAdd, RequiredVersion
<1> QED
  BY <1>2, <1>3, <1>4

\* What is called because it must be solved will be added.
LEMMA MustSolveWillAdd ==
  ASSUME ComponentTypeOK, Dependency \in Requirements, MustSolve,
         NEW h, h.component = Dependency.name, h.version = RequiredVersion
  PROVE  WillAdd(h)
<1> DEFINE d == Dependency.name
<1>1. d \in Components /\ Dependency.version \in 0..MaxVersion /\ installed[d] \in 0..MaxVersion
  BY DEF Requirements, ComponentTypeOK
<1>2. CASE installed[d] = 0
  BY <1>2 DEF WillAdd, IsInstalled
<1>3. CASE UpdateRequested(d)
  BY <1>3 DEF WillAdd, UpdateRequested
<1>4. CASE IsUpdateRequired(Dependency)
  <2>1. h.version = Dependency.version /\ h.version # 0
    BY <1>4 DEF RequiredVersion, IsUpdateRequired
  <2>2. installed[d] < h.version
    BY <1>4, <2>1 DEF IsUpdateRequired
  <2>3. installed[d] # h.version
    BY <1>1, <2>1, <2>2, ComponentAssumption
  <2> QED
    BY <2>1, <2>3 DEF WillAdd, IsInstalled
<1> QED
  BY <1>2, <1>3, <1>4 DEF MustSolve

\* What is not called has been met.
LEMMA SkippedIsMet ==
  ASSUME ComponentTypeOK, Dependency \in Requirements, ~MustSolve
  PROVE  Met(Dependency) \/ Frame.component \in toInstall
<1> DEFINE d == Dependency.name
<1>1. d \in Components /\ Dependency.version \in 0..MaxVersion /\ installed[d] \in 0..MaxVersion
  BY DEF Requirements, ComponentTypeOK
<1>2. CASE installed[d] # 0 /\ ~IsUpdateRequired(Dependency)
  <2>1. Dependency.version = 0 \/ ~(installed[d] < Dependency.version)
    BY <1>2 DEF IsUpdateRequired
  <2>2. Dependency.version <= installed[d]
    BY <1>1, <2>1, ComponentAssumption
  <2> QED
    BY <1>2, <2>2 DEF Met, InstalledMeets, VersionMatches
<1> QED
  BY <1>2 DEF MustSolve, Met

\* A call that has come to its end has found all that is needed.
LEMMA HandledIsResolvable ==
  ASSUME ComponentTypeOK, InstallerTypeOK, InstallCallsOK, DependenciesInStep,
         installStack # <<>>, NEW c \in Components, Handles(c)
  PROVE  c \in toInstall \/ Resolvable(c)
<1>1. CASE \E g \in SolveFrames : Adds(c, g)
  BY <1>1 DEF Adds, Resolvable, Range
<1>2. CASE Completes /\ c = Frame.component
  <2>1. /\ Frame = installStack[1] /\ 1 \in DOMAIN installStack
        /\ Frame \in ComponentFrames /\ Frame.dependencies = <<>>
    BY <1>2, InstallPositions DEF Completes
  <2>2. Frame.call = "solveComponent" /\ Range(Frame.dependencies) = {}
    BY <2>1 DEF ComponentFrames, Range
  <2>3. LoopOK(1, installStack, toInstall)
    BY <2>1, <2>2 DEF DependenciesInStep
  <2> QED
    BY <1>2, <2>1, <2>2, <2>3 DEF LoopOK, Resolvable, Met
<1> QED
  BY <1>1, <1>2 DEF Handles

LEMMA ListGrows ==
  ASSUME ComponentTypeOK, InstallerTypeOK, InstallerNext
  PROVE  toInstall \subseteq toInstall'
<1>1. \A c \in Components : Handles(c) => toInstall \subseteq toInstall'
  BY HandledIsAdded
<1>2. Ends \/ (\E g \in SolveFrames : Follows(g)) => toInstall' = toInstall
  BY DEF Ends, Follows
<1> QED
  BY StepsAdd, <1>1, <1>2

\* A component is added after all it needs.
LEMMA OrderKept ==
  ASSUME ComponentTypeOK, InstallerTypeOK, InstallCallsOK, ListsInStep, DependenciesInStep,
         InstallerNext
  PROVE  OrderOK(resolved')
<1> SUFFICES ASSUME NEW i \in DOMAIN resolved', NEW r \in Range(CurrentDependencies(resolved'[i]))
             PROVE  /\ IsFound(r)
                    /\ InstalledMeets(r) \/ \E j \in 1..(i - 1) : resolved'[j] = r.name
  BY DEF OrderOK
<1> DEFINE n == Len(resolved)
<1>1. /\ resolved \in Seq(Components) /\ n \in Nat /\ DOMAIN resolved = 1 .. n
      /\ Range(resolved) = toInstall
  BY RangeType DEF InstallerTypeOK, ListsInStep
<1>2. CASE resolved' = resolved
  BY <1>2 DEF DependenciesInStep, OrderOK
<1>3. ASSUME resolved' # resolved
      PROVE  \E c \in Components : Handles(c) /\ c \notin toInstall /\ resolved' = Append(resolved, c)
  <2>1. PICK c \in Components : Handles(c)
    BY <1>3, StepsAdd DEF Ends, Follows
  <2>2. CASE \E g \in SolveFrames : Adds(c, g)
    <3>1. AddComponentForInstall(c, 0) /\ c \notin toInstall
      BY <2>2 DEF Adds
    <3> QED
      BY <1>3, <2>1, <3>1, AddType
  <2>3. CASE Completes /\ c = Frame.component
    <3>1. AddComponentForInstall(c, Frame.version) /\ c \notin toInstall
      BY <1>3, <2>3 DEF Completes
    <3> QED
      BY <1>3, <2>1, <3>1, AddType
  <2> QED
    BY <2>1, <2>2, <2>3 DEF Handles
<1>4. CASE resolved' # resolved
  <2>1. PICK c \in Components : Handles(c) /\ c \notin toInstall /\ resolved' = Append(resolved, c)
    BY <1>3, <1>4
  <2>2. /\ Append(resolved, c) \in Seq(Components)
        /\ Len(Append(resolved, c)) = n + 1 /\ Append(resolved, c)[n + 1] = c
        /\ \A j \in 1 .. n : Append(resolved, c)[j] = resolved[j]
    BY <1>1, RangeAppend
  <2>3. DOMAIN resolved' = 1 .. n + 1
    BY <2>1, <2>2, RangeType
  <2> HIDE DEF n
  <2>4. CASE i = n + 1
    <3>1. /\ installStack # <<>> /\ Resolvable(c) /\ resolved'[i] = c
      BY <2>1, <2>2, <2>4, InstallerSteps, HandledIsResolvable
    <3>2. IsFound(r) /\ Met(r)
      BY <3>1 DEF Resolvable
    <3>3. CASE r.name \in toInstall
      <4>1. PICK j \in 1 .. n : resolved[j] = r.name
        BY <1>1, <3>3 DEF Range
      <4>2. j \in 1 .. (i - 1) /\ resolved'[j] = r.name
        BY <1>1, <2>1, <2>2, <2>4, <4>1
      <4> QED
        BY <3>2, <4>2
    <3> QED
      BY <3>2, <3>3 DEF Met
  <2>5. CASE i # n + 1
    <3>1. i \in 1 .. n /\ resolved'[i] = resolved[i]
      BY <1>1, <2>1, <2>2, <2>3, <2>5
    <3>2. \A j \in 1 .. (i - 1) : resolved'[j] = resolved[j]
      <4>1. \A j \in 1 .. (i - 1) : j \in 1 .. n
        BY <1>1, <3>1
      <4> QED
        BY <2>1, <2>2, <4>1
    <3>3. /\ IsFound(r)
          /\ InstalledMeets(r) \/ \E j \in 1..(i - 1) : resolved[j] = r.name
      BY <1>1, <3>1 DEF DependenciesInStep, OrderOK
    <3> QED
      BY <3>2, <3>3
  <2> QED
    BY <2>4, <2>5
<1> QED
  BY <1>2, <1>4

\* The questions asked of components do not change while the calculator works.
LEMMA QuestionsStay ==
  ASSUME UNCHANGED componentVars
  PROVE  /\ \A c : CurrentDependencies(c)' = CurrentDependencies(c)
         /\ \A c : LocalDependencies(c)' = LocalDependencies(c)
         /\ \A c : UpdateRequested(c)' = UpdateRequested(c)
         /\ \A c : IsUpdateAvailable(c)' = IsUpdateAvailable(c)
         /\ \A r : IsFound(r)' = IsFound(r)
         /\ \A r : IsUpdateRequired(r)' = IsUpdateRequired(r)
         /\ \A r : InstalledMeets(r)' = InstalledMeets(r)
         /\ \A f : WillAdd(f)' = WillAdd(f)
         /\ InstalledSet' = InstalledSet
  BY DEF componentVars, CurrentDependencies, LocalDependencies, Dependencies, UpdateRequested,
         IsUpdateAvailable, IsFound, IsUpdateRequired, InstalledMeets, WillAdd, IsInstalled,
         VersionMatches, InstalledSet

\* So the lists of calls and components are all that counts.
LEMMA DependenciesPrime ==
  ASSUME UNCHANGED componentVars, OrderOK(resolved'),
         \A i \in DOMAIN installStack' : installStack'[i].call = "solveComponent" =>
           LoopOK(i, installStack', toInstall')
  PROVE  DependenciesInStep'
<1>1. /\ \A c : CurrentDependencies(c)' = CurrentDependencies(c)
      /\ \A r : IsFound(r)' = IsFound(r) /\ InstalledMeets(r)' = InstalledMeets(r)
      /\ \A f : WillAdd(f)' = WillAdd(f)
  BY QuestionsStay
<1>2. \A i \in DOMAIN installStack' : installStack'[i].call = "solveComponent" =>
        LoopOK(i, installStack, toInstall)'
  BY <1>1 DEF LoopOK
<1>3. OrderOK(resolved)'
  BY <1>1 DEF OrderOK
<1> QED
  BY <1>2, <1>3 DEF DependenciesInStep

\* A call is left as it was by what happens above it.
LEMMA LoopsBelow ==
  ASSUME NEW i \in Nat, NEW j \in Nat, i > 1, j > 1, NEW s, NEW t, NEW a, NEW b, a \subseteq b,
         t[i] = s[j],
         \/ t[i - 1] = s[j - 1]
         \/ s[j - 1].component = t[i - 1].component /\ (WillAdd(s[j - 1]) => WillAdd(t[i - 1])),
         LoopOK(j, s, a)
  PROVE  LoopOK(i, t, b)
BY DEF LoopOK

LEMMA DependenciesStay ==
  ASSUME ComponentTypeOK, InstallerTypeOK, InstallCallsOK, ListsInStep, DependenciesInStep,
         InstallerNext, UNCHANGED componentVars, Outdated(installed) = {}
  PROVE  DependenciesInStep'
<1> DEFINE n == Len(installStack)
           s == installStack
           t == installStack'
           a == toInstall
           b == toInstall'
<1> SUFFICES \A i \in DOMAIN t : t[i].call = "solveComponent" => LoopOK(i, t, b)
  BY OrderKept, DependenciesPrime
<1>1. /\ s # <<>> /\ n \in Nat \ {0} /\ DOMAIN s = 1 .. n
      /\ Frame = s[1]
      /\ Frame \in SolveFrames => n = 1
      /\ Frame \in ComponentFrames => n > 1
      /\ \A i \in 1 .. n - 1 : s[i].call = "solveComponent" /\ i \in 1 .. n
      /\ s[n].call = "solve"
  <2>1. \A k \in Nat \ {0} : \A i \in 1 .. k - 1 : i \in 1 .. k
    OBVIOUS
  <2> QED
    BY <2>1, InstallerSteps, InstallPositions DEF SolveFrames
<1>2. a \subseteq b
  BY ListGrows
<1>3. \A i \in 1 .. n - 1 : LoopOK(i, s, a)
  BY <1>1 DEF DependenciesInStep
<1>4. /\ \A f \in SolveFrames : f.call # "solveComponent"
      /\ \A f \in ComponentFrames : f.component \in Components
  BY DEF SolveFrames, ComponentFrames
<1>5. CASE Fails
  BY <1>5 DEF Fails
<1>6. CASE Ends
  <2>1. n = 1 /\ DOMAIN t = 1 .. n - 1
    BY <1>1, <1>6 DEF Ends, TopReturns
  <2> QED
    BY <2>1
<1>7. ASSUME NEW g \in SolveFrames, TopBecomes(g), n = 1
      PROVE  \A i \in DOMAIN t : t[i].call # "solveComponent"
  <2>1. DOMAIN t = 1 .. 1 /\ t[1] = g
    BY <1>7 DEF TopBecomes
  <2> QED
    BY <1>4, <2>1
<1>8. ASSUME NEW h \in ComponentFrames, h.dependencies = CurrentDependencies(h.component), t[1] = h
      PROVE  LoopOK(1, t, b)
  BY <1>8 DEF LoopOK
<1>9. ASSUME Frame \in ComponentFrames, Frame.dependencies # <<>>
      PROVE  /\ Range(Frame.dependencies) = {Dependency} \cup Range(Tail(Frame.dependencies))
             /\ LoopOK(1, s, a)
             /\ Range(Frame.dependencies) \subseteq Range(CurrentDependencies(Frame.component))
  <2>1. Frame.dependencies \in Seq(Requirements)
    BY <1>9 DEF ComponentFrames
  <2>2. LoopOK(1, s, a)
    <3>1. 1 \in 1 .. n - 1
      BY <1>1, <1>9
    <3> QED
      BY <1>3, <3>1
  <2>3. Range(Frame.dependencies) \subseteq Range(CurrentDependencies(Frame.component))
    BY <1>1, <2>2 DEF LoopOK
  <2> QED
    BY <1>9, <2>1, <2>2, <2>3, RangeHeadTail DEF Dependency
<1> HIDE DEF n, s, t, a, b
<1>10. ASSUME NEW c \in Components, NEW g \in SolveFrames, NEW h \in ComponentFrames, Begins(c, g, h)
       PROVE  \A i \in DOMAIN t : t[i].call = "solveComponent" => LoopOK(i, t, b)
  <2>1. /\ n = 1 /\ h.dependencies = CurrentDependencies(h.component)
        /\ DOMAIN t = 1 .. n + 1 /\ t[1] = h /\ t[2] = g
    BY <1>1, <1>10 DEF Begins, TopCalls, n, s, t
  <2>2. LoopOK(1, t, b)
    BY <1>8, <2>1
  <2>3. \A i \in DOMAIN t : i = 1 \/ i = 2
    BY <2>1
  <2> QED
    BY <1>4, <2>1, <2>2, <2>3
<1>12. ASSUME NEW g \in ComponentFrames, Skips(g)
       PROVE  \A i \in DOMAIN t : t[i].call = "solveComponent" => LoopOK(i, t, b)
  <2>1. /\ Frame \in ComponentFrames /\ Frame.dependencies # <<>> /\ IsFound(Dependency)
        /\ Dependency \in Requirements /\ ~MustSolve
        /\ g.component = Frame.component /\ g.version = RequiredVersion
        /\ g.dependencies = Tail(Frame.dependencies)
        /\ DOMAIN t = 1 .. n /\ t[1] = g
        /\ \A i \in 2 .. n : t[i] = s[i]
    BY <1>12 DEF Skips, TopBecomes, n, s, t
  <2>2. WillAdd(g) <=> WillAdd(Frame)
    BY <1>9, <2>1, WillAddStays
  <2>3. Met(Dependency) \/ Frame.component \in a
    BY <2>1, SkippedIsMet DEF a
  <2>4. LoopOK(1, t, b)
    <3>1. /\ Range(Frame.dependencies) = {Dependency} \cup Range(g.dependencies)
          /\ LoopOK(1, s, a)
      BY <1>9, <2>1
    <3> QED
      BY <1>1, <1>2, <2>1, <2>3, <3>1 DEF LoopOK, Met, a
  <2>5. ASSUME NEW i \in 2 .. n - 1 PROVE LoopOK(i, t, b)
    <3>1. i \in 1 .. n - 1 /\ i \in 2 .. n /\ i \in Nat /\ i > 1 /\ (i = 2 \/ i - 1 \in 2 .. n)
      BY <1>1
    <3>2. \/ t[i - 1] = s[i - 1]
          \/ s[i - 1].component = t[i - 1].component /\ (WillAdd(s[i - 1]) => WillAdd(t[i - 1]))
      <4>1. CASE i = 2
        <5>1. i - 1 = 1
          BY <4>1
        <5> QED
          BY <1>1, <2>1, <2>2, <5>1
      <4>2. CASE i - 1 \in 2 .. n
        BY <2>1, <4>2
      <4> QED
        BY <3>1, <4>1, <4>2
    <3>3. t[i] = s[i] /\ LoopOK(i, s, a)
      BY <1>3, <2>1, <3>1
    <3> QED
      BY <1>2, <3>1, <3>2, <3>3, LoopsBelow
  <2>6. \A i \in DOMAIN t : i = 1 \/ i \in 2 .. n - 1 \/ (i = n /\ n \in 2 .. n)
    BY <1>1, <2>1
  <2>7. n \in 2 .. n => t[n].call = "solve"
    BY <1>1, <2>1
  <2> QED
    BY <2>4, <2>5, <2>6, <2>7
<1>13. ASSUME NEW g \in ComponentFrames, NEW h \in ComponentFrames, Descends(g, h)
       PROVE  \A i \in DOMAIN t : t[i].call = "solveComponent" => LoopOK(i, t, b)
  <2>1. /\ Frame \in ComponentFrames /\ Frame.dependencies # <<>> /\ IsFound(Dependency)
        /\ Dependency \in Requirements /\ MustSolve
        /\ g.component = Frame.component /\ g.version = RequiredVersion
        /\ g.dependencies = Tail(Frame.dependencies)
        /\ h.component = Dependency.name /\ h.version = RequiredVersion
        /\ h.dependencies = CurrentDependencies(h.component)
        /\ DOMAIN t = 1 .. n + 1 /\ t[1] = h /\ t[2] = g
        /\ \A i \in 3 .. n + 1 : t[i] = s[i - 1]
    BY <1>13 DEF Descends, TopCalls, n, s, t
  <2>2. WillAdd(g) <=> WillAdd(Frame)
    BY <1>9, <2>1, WillAddStays
  <2>3. WillAdd(h)
    BY <2>1, MustSolveWillAdd
  <2>4. LoopOK(1, t, b)
    BY <1>8, <2>1
  <2>5. LoopOK(2, t, b)
    <3>1. /\ Range(Frame.dependencies) = {Dependency} \cup Range(g.dependencies)
          /\ LoopOK(1, s, a)
      BY <1>9, <2>1
    <3>2. 2 - 1 = 1 /\ ~(1 > 1)
      OBVIOUS
    <3> QED
      BY <1>1, <1>2, <2>1, <2>3, <3>1, <3>2 DEF LoopOK
  <2>6. ASSUME NEW i \in 3 .. n PROVE LoopOK(i, t, b)
    <3>1. /\ i - 1 \in 1 .. n - 1 /\ i \in 3 .. n + 1 /\ i \in Nat /\ i - 1 \in Nat
          /\ i > 1 /\ i - 1 > 1 /\ (i = 3 \/ i - 1 \in 3 .. n + 1)
      BY <1>1
    <3>2. \/ t[i - 1] = s[i - 1 - 1]
          \/ /\ s[i - 1 - 1].component = t[i - 1].component
             /\ WillAdd(s[i - 1 - 1]) => WillAdd(t[i - 1])
      <4>1. CASE i = 3
        <5>1. i - 1 = 2 /\ i - 1 - 1 = 1
          BY <4>1
        <5> QED
          BY <1>1, <2>1, <2>2, <5>1
      <4>2. CASE i - 1 \in 3 .. n + 1
        BY <2>1, <4>2
      <4> QED
        BY <3>1, <4>1, <4>2
    <3>3. t[i] = s[i - 1] /\ LoopOK(i - 1, s, a)
      BY <1>3, <2>1, <3>1
    <3> QED
      BY <1>2, <3>1, <3>2, <3>3, LoopsBelow
  <2>7. \A i \in DOMAIN t : i = 1 \/ i = 2 \/ i \in 3 .. n \/ i = n + 1
    BY <1>1, <2>1
  <2>8. t[n + 1].call = "solve"
    <3>1. n > 1 /\ n \in Nat
      BY <1>1, <2>1
    <3>2. n + 1 \in 3 .. n + 1 /\ n + 1 - 1 = n
      BY <3>1
    <3> QED
      BY <1>1, <2>1, <3>2
  <2> QED
    BY <2>4, <2>5, <2>6, <2>7, <2>8
<1>14. ASSUME Completes PROVE \A i \in DOMAIN t : t[i].call = "solveComponent" => LoopOK(i, t, b)
  <2>1. /\ Frame \in ComponentFrames /\ n > 1
        /\ DOMAIN t = 1 .. n - 1
        /\ \A i \in 1 .. n - 1 : t[i] = s[i + 1]
        /\ Frame.component \in Components /\ Handles(Frame.component)
    BY <1>1, <1>14 DEF Completes, TopReturns, n, s, t, ComponentFrames, Handles
  <2>2. Frame.component \in b \/ ~WillAdd(Frame)
    BY <1>14, <2>1, HandledIsAdded DEF b
  <2>3. ASSUME NEW i \in 1 .. n - 2 PROVE LoopOK(i, t, b)
    <3>1. /\ i + 1 \in 1 .. n - 1 /\ i \in 1 .. n - 1 /\ i \in Nat /\ i + 1 \in Nat
          /\ i + 1 > 1 /\ i + 1 - 1 = i
          /\ i = 1 \/ (i > 1 /\ i - 1 \in 1 .. n - 1 /\ i - 1 + 1 = i)
      BY <1>1
    <3>2. t[i] = s[i + 1] /\ LoopOK(i + 1, s, a)
      BY <1>3, <2>1, <3>1
    <3>3. CASE i = 1
      <4>1. LoopOK(2, s, a) /\ t[1] = s[2]
        BY <3>2, <3>3
      <4>2. 2 - 1 = 1
        OBVIOUS
      <4>3. LoopOK(1, t, b)
        BY <1>1, <1>2, <2>2, <4>1, <4>2 DEF LoopOK
      <4> QED
        BY <3>3, <4>3
    <3>4. CASE i > 1
      <4>1. t[i - 1] = s[i + 1 - 1]
        BY <2>1, <3>1, <3>4
      <4> QED
        BY <1>2, <3>1, <3>2, <3>4, <4>1, LoopsBelow
    <3> QED
      BY <3>1, <3>3, <3>4
  <2>4. \A i \in DOMAIN t : i \in 1 .. n - 2 \/ i = n - 1
    BY <1>1, <2>1
  <2>5. t[n - 1].call = "solve"
    <3>1. n - 1 \in 1 .. n - 1 /\ n - 1 + 1 = n
      BY <1>1, <2>1
    <3> QED
      BY <1>1, <2>1, <3>1
  <2> QED
    BY <2>3, <2>4, <2>5
<1>15. ASSUME NEW c \in Components, NEW g \in SolveFrames, Adds(c, g) \/ Postpones(c, g)
       PROVE  \A i \in DOMAIN t : t[i].call # "solveComponent"
  BY <1>1, <1>7, <1>15 DEF Adds, Postpones
<1>16. ASSUME NEW g \in SolveFrames, Follows(g)
       PROVE  \A i \in DOMAIN t : t[i].call # "solveComponent"
  BY <1>1, <1>7, <1>16 DEF Follows
<1> QED
  BY InstallerSteps, <1>5, <1>6, <1>10, <1>12, <1>13, <1>14, <1>15, <1>16 DEF t, b

-----------------------------------------------------------------------------
(* What changes, and why                                                   *)

\* The calls below the one at the top.
Below == {installStack[i] : i \in 2 .. Len(installStack)}

LEMMA StackFrames ==
  ASSUME ComponentTypeOK, InstallerTypeOK, installStack # <<>>
  PROVE  /\ Range(installStack) = {Frame} \cup Below
         /\ \A g : TopBecomes(g) => Range(installStack') = {g} \cup Below
         /\ \A g, h : TopCalls(g, h) => Range(installStack') = {g, h} \cup Below
         /\ TopReturns => Range(installStack') = Below
<1> DEFINE n == Len(installStack)
           s == installStack
           t == installStack'
<1>1. /\ Frame = s[1] /\ n \in Nat \ {0} /\ DOMAIN s = 1 .. n
      /\ Below = {s[i] : i \in 2 .. n}
  BY TopFrame DEF Below
<1> HIDE DEF n, s, t
<1>2. /\ 1 .. n = {1} \cup 2 .. n
      /\ \A i \in 1 .. n - 1 : i + 1 \in 2 .. n
      /\ \A i \in 2 .. n : i - 1 \in 1 .. n - 1 /\ i - 1 + 1 = i
      /\ \A i \in 3 .. n + 1 : i - 1 \in 2 .. n
      /\ \A i \in 2 .. n : i + 1 \in 3 .. n + 1 /\ i + 1 - 1 = i
      /\ 1 .. n + 1 = {1, 2} \cup 3 .. n + 1
  BY <1>1
<1>3. Range(s) = {Frame} \cup Below
  BY <1>1, <1>2 DEF Range
<1>4. ASSUME NEW g, TopBecomes(g) PROVE Range(t) = {g} \cup Below
  <2>1. DOMAIN t = 1 .. n /\ t[1] = g /\ \A i \in 2 .. n : t[i] = s[i]
    BY <1>4 DEF TopBecomes, n, s, t
  <2>2. Range(t) = {t[1]} \cup {t[i] : i \in 2 .. n}
    BY <1>2, <2>1 DEF Range
  <2> QED
    BY <1>1, <2>1, <2>2
<1>5. ASSUME NEW g, NEW h, TopCalls(g, h) PROVE Range(t) = {g, h} \cup Below
  <2>1. /\ DOMAIN t = 1 .. n + 1 /\ t[1] = h /\ t[2] = g
        /\ \A i \in 3 .. n + 1 : t[i] = s[i - 1]
    BY <1>5 DEF TopCalls, n, s, t
  <2>2. Range(t) = {t[1], t[2]} \cup {t[i] : i \in 3 .. n + 1}
    BY <1>2, <2>1 DEF Range
  <2>3. {t[i] : i \in 3 .. n + 1} \subseteq Below
    BY <1>1, <1>2, <2>1
  <2>4. Below \subseteq {t[i] : i \in 3 .. n + 1}
    <3>1. ASSUME NEW i \in 2 .. n PROVE s[i] \in {t[j] : j \in 3 .. n + 1}
      <4>1. i + 1 \in 3 .. n + 1 /\ s[i] = t[i + 1]
        BY <1>2, <2>1
      <4> QED
        BY <4>1
    <3> QED
      BY <1>1, <3>1
  <2> QED
    BY <2>1, <2>2, <2>3, <2>4
<1>6. ASSUME TopReturns PROVE Range(t) = Below
  <2>1. DOMAIN t = 1 .. n - 1 /\ \A i \in 1 .. n - 1 : t[i] = s[i + 1]
    BY <1>6 DEF TopReturns, n, s, t
  <2>2. Range(t) \subseteq Below
    BY <1>1, <1>2, <2>1 DEF Range
  <2>3. ASSUME NEW i \in 2 .. n PROVE s[i] \in Range(t)
    <3>1. i - 1 \in DOMAIN t /\ t[i - 1] = s[i]
      BY <1>2, <2>1
    <3> QED
      BY <3>1 DEF Range
  <2> QED
    BY <1>1, <2>2, <2>3
<1> QED
  BY <1>3, <1>4, <1>5, <1>6 DEF s, t

\* What is or will be added by the calls in progress.
Called(frames) == {f.component : f \in {x \in frames : x.call = "solveComponent" /\ WillAdd(x)}}

Wanted == toInstall \cup Called(Range(installStack))

FollowsUpdate(c, added) == IsUpdateAvailable(c) /\ product.autoDependOn[c] \cap added # {}

Required(c, wanted) ==
  \E d \in wanted, r \in Requirements :
    /\ r.name = c /\ IsUpdateRequired(r) /\ IsFound(r)
    /\ r \in Range(CurrentDependencies(d))

Reason(c, wanted, added) ==
  UpdateRequested(c) \/ FollowsUpdate(c, added) \/ Required(c, wanted)

\* What is there already is added for a reason; so are the updates solve() was
\* given, and the next check sees only updates that are asked for and added.
ReasonsInStep ==
  installResult # "failed" =>
    /\ \A c \in Wanted \cap InstalledSet : Reason(c, Wanted, toInstall)
    /\ \A c \in toCheck : UpdateRequested(c) => c \in toInstall
    /\ \A f \in Range(installStack) : f.call = "solve" =>
         \A c \in Of(f) : IsUpdateAvailable(c) => UpdateRequested(c) \/ FollowsUpdate(c, toInstall)

LEMMA ReasonStays ==
  ASSUME NEW c, NEW w, NEW v, NEW a, NEW b, w \subseteq v, a \subseteq b, Reason(c, w, a)
  PROVE  Reason(c, v, b)
BY DEF Reason, FollowsUpdate, Required

\* It is enough to look at what a step adds.
LEMMA ReasonsPrime ==
  ASSUME ComponentTypeOK, UNCHANGED componentVars, ReasonsInStep, installResult # "failed",
         NEW wanted, wanted = toInstall' \cup Called(Range(installStack')),
         Wanted \subseteq wanted, toInstall \subseteq toInstall',
         \A c \in wanted \ Wanted :
           installed[c] = 0 \/ UpdateRequested(c) \/ FollowsUpdate(c, toInstall)
             \/ Required(c, Wanted),
         \A c \in toCheck' \ toCheck : UpdateRequested(c) => c \in toInstall',
         \A f \in Range(installStack') : f.call = "solve" =>
           \A c \in Of(f) : IsUpdateAvailable(c) => UpdateRequested(c) \/ FollowsUpdate(c, toInstall)
  PROVE  ReasonsInStep'
<1>1. \A c \in wanted \cap InstalledSet : Reason(c, wanted, toInstall')
  <2>1. \A c \in wanted \cap InstalledSet : Reason(c, Wanted, toInstall)
    BY DEF ReasonsInStep, InstalledSet, Reason
  <2> QED
    BY <2>1, ReasonStays
<1>2. \A c \in toCheck' : UpdateRequested(c) => c \in toInstall'
  BY DEF ReasonsInStep
<1>3. \A f \in Range(installStack') : f.call = "solve" =>
        \A c \in Of(f) : IsUpdateAvailable(c) => UpdateRequested(c) \/ FollowsUpdate(c, toInstall')
  BY DEF FollowsUpdate
<1>4. Wanted' = wanted
  <2>1. \A f : WillAdd(f)' = WillAdd(f)
    BY QuestionsStay
  <2> QED
    BY <2>1 DEF Wanted, Called, Range
<1>5. \A c \in Wanted' \cap InstalledSet' :
        UpdateRequested(c)' \/ FollowsUpdate(c, toInstall)' \/ Required(c, Wanted)'
  <2> SUFFICES ASSUME NEW c \in wanted \cap InstalledSet
               PROVE  UpdateRequested(c)' \/ FollowsUpdate(c, toInstall)' \/ Required(c, Wanted)'
    BY <1>4, QuestionsStay
  <2>2. CASE UpdateRequested(c)
    BY <2>2, QuestionsStay
  <2>3. CASE FollowsUpdate(c, toInstall')
    BY <2>3, QuestionsStay DEF FollowsUpdate, componentVars
  <2>4. CASE Required(c, wanted)
    BY <1>4, <2>4, QuestionsStay DEF Required
  <2> QED
    BY <1>1, <2>2, <2>3, <2>4 DEF Reason
<1>6. \A c \in toCheck' : UpdateRequested(c)' => c \in toInstall'
  BY <1>2, QuestionsStay
<1>7. \A f \in Range(installStack)' : f.call = "solve" =>
        \A c \in Of(f)' : IsUpdateAvailable(c)' => UpdateRequested(c)' \/ FollowsUpdate(c, toInstall)'
  <2> SUFFICES ASSUME NEW f \in Range(installStack'), f.call = "solve", NEW c \in Of(f),
                      IsUpdateAvailable(c)
               PROVE  UpdateRequested(c)' \/ FollowsUpdate(c, toInstall)'
    BY QuestionsStay DEF Of, Range
  <2>2. CASE UpdateRequested(c)
    BY <2>2, QuestionsStay
  <2>3. CASE FollowsUpdate(c, toInstall')
    BY <2>3, QuestionsStay DEF FollowsUpdate, componentVars
  <2> QED
    BY <1>3, <2>2, <2>3
<1> QED
  BY <1>5, <1>6, <1>7 DEF ReasonsInStep, Reason

LEMMA ReasonsKept ==
  ASSUME ComponentTypeOK, InstallerTypeOK, InstallCallsOK, DependenciesInStep, ReasonsInStep,
         InstallerNext, UNCHANGED componentVars, Outdated(installed) = {}
  PROVE  ReasonsInStep'
<1> SUFFICES ASSUME installResult' # "failed" PROVE ReasonsInStep'
  BY DEF ReasonsInStep
<1> DEFINE wanted == toInstall' \cup Called(Range(installStack'))
           Fine(c) == \/ installed[c] = 0 \/ UpdateRequested(c) \/ FollowsUpdate(c, toInstall)
                      \/ Required(c, Wanted)
<1>1. installStack # <<>> /\ installResult = "running"
  BY InstallerSteps DEF InstallCallsOK
<1>2. toInstall \subseteq toInstall'
  BY ListGrows
<1>3. /\ Range(installStack) = {Frame} \cup Below
      /\ \A g : TopBecomes(g) => Range(installStack') = {g} \cup Below
      /\ \A g, h : TopCalls(g, h) => Range(installStack') = {g, h} \cup Below
      /\ TopReturns => Range(installStack') = Below
  BY <1>1, StackFrames
<1>4. \A f \in Range(installStack) : f.call = "solve" =>
        \A c \in Of(f) : IsUpdateAvailable(c) => UpdateRequested(c) \/ FollowsUpdate(c, toInstall)
  BY <1>1 DEF ReasonsInStep
<1>5. /\ \A f \in SolveFrames : f.call = "solve" /\ f.components \in Seq(Components)
                                /\ f.notAppended \in Seq(Components)
      /\ \A f \in ComponentFrames : f.call = "solveComponent" /\ f.component \in Components
                                    /\ f.dependencies \in Seq(Requirements)
  BY DEF SolveFrames, ComponentFrames
<1>6. Frame \in SolveFrames => \A c \in Range(Frame.components) \cup Range(Frame.notAppended) :
        IsUpdateAvailable(c) => UpdateRequested(c) \/ FollowsUpdate(c, toInstall)
  BY <1>3, <1>4, <1>5 DEF Of
<1>7. Called({Frame} \cup Below) = Called(Below) \cup
        (IF Frame.call = "solveComponent" /\ WillAdd(Frame) THEN {Frame.component} ELSE {})
  BY DEF Called
<1>8. Wanted = toInstall \cup Called(Below) \cup
        (IF Frame.call = "solveComponent" /\ WillAdd(Frame) THEN {Frame.component} ELSE {})
  BY <1>3, <1>7 DEF Wanted
<1> HIDE DEF wanted, Fine
<1>9. ASSUME Wanted \subseteq wanted, \A c \in wanted \ Wanted : Fine(c),
             \A c \in toCheck' \ toCheck : UpdateRequested(c) => c \in toInstall',
             \A f \in Range(installStack') : f.call = "solve" => f \in Below \/
               \A c \in Of(f) : IsUpdateAvailable(c) => UpdateRequested(c) \/ FollowsUpdate(c, toInstall)
      PROVE  ReasonsInStep'
  <2>1. \A f \in Range(installStack') : f.call = "solve" =>
          \A c \in Of(f) : IsUpdateAvailable(c) => UpdateRequested(c) \/ FollowsUpdate(c, toInstall)
    BY <1>3, <1>4, <1>9
  <2> QED
    BY <1>1, <1>2, <1>9, <2>1, ReasonsPrime DEF wanted, Fine
<1>10. ASSUME NEW c \in Components, NEW g \in SolveFrames, Adds(c, g) PROVE ReasonsInStep'
  <2>1. /\ Frame \in SolveFrames /\ Frame.components # <<>> /\ c = Head(Frame.components)
        /\ g.components = Tail(Frame.components) /\ g.notAppended = Frame.notAppended
        /\ TopBecomes(g) /\ AddComponentForInstall(c, 0)
    BY <1>10 DEF Adds
  <2>2. Range(Frame.components) = {c} \cup Range(g.components)
    BY <1>5, <2>1, RangeHeadTail
  <2>3. Called({g} \cup Below) = Called(Below)
    BY <1>5 DEF Called
  <2>4. wanted = toInstall' \cup Called(Below) /\ Wanted = toInstall \cup Called(Below)
    BY <1>3, <1>5, <1>8, <2>1, <2>3 DEF wanted
  <2>5. toCheck' = toCheck \cup {c} /\ toInstall' \subseteq toInstall \cup {c}
    BY <2>1, AddType
  <2>6. c \in toInstall' => installed[c] = 0 \/ IsUpdateAvailable(c) \/ c \in toInstall
    BY <2>1, AddType DEF IsInstalled
  <2>7. IsUpdateAvailable(c) => c \in toInstall'
    BY <2>1, AddType
  <2>8. \A x \in Of(g) : IsUpdateAvailable(x) => UpdateRequested(x) \/ FollowsUpdate(x, toInstall)
    BY <1>5, <1>6, <2>1, <2>2 DEF Of
  <2>9. \A x \in wanted \ Wanted : Fine(x)
    <3>1. \A x \in wanted \ Wanted : x = c /\ c \in toInstall' /\ c \notin toInstall
      BY <2>4, <2>5
    <3> QED
      BY <1>6, <2>1, <2>2, <2>6, <3>1 DEF Fine
  <2>10. UpdateRequested(c) => c \in toInstall'
    BY <2>7 DEF UpdateRequested
  <2> QED
    BY <1>2, <1>3, <1>9, <2>1, <2>4, <2>5, <2>8, <2>9, <2>10
<1>11. ASSUME NEW c \in Components, NEW g \in SolveFrames, Postpones(c, g) PROVE ReasonsInStep'
  <2>1. /\ Frame \in SolveFrames /\ Frame.components # <<>> /\ c = Head(Frame.components)
        /\ g.components = Tail(Frame.components) /\ g.notAppended = Append(Frame.notAppended, c)
        /\ TopBecomes(g) /\ UNCHANGED <<toInstall, toCheck>>
    BY <1>11 DEF Postpones
  <2>2. Range(Frame.components) = {c} \cup Range(g.components)
    BY <1>5, <2>1, RangeHeadTail
  <2>3. Range(g.notAppended) = Range(Frame.notAppended) \cup {c}
    BY <1>5, <2>1, RangeAppend
  <2>4. Called({g} \cup Below) = Called(Below)
    BY <1>5 DEF Called
  <2>5. wanted = Wanted
    BY <1>3, <1>5, <1>8, <2>1, <2>4 DEF wanted
  <2>6. \A x \in Of(g) : IsUpdateAvailable(x) => UpdateRequested(x) \/ FollowsUpdate(x, toInstall)
    BY <1>5, <1>6, <2>1, <2>2, <2>3 DEF Of
  <2> QED
    BY <1>3, <1>9, <2>1, <2>5, <2>6
<1>12. ASSUME NEW c \in Components, NEW g \in SolveFrames, NEW h \in ComponentFrames, Begins(c, g, h)
       PROVE  ReasonsInStep'
  <2>1. /\ Frame \in SolveFrames /\ Frame.components = <<>> /\ Frame.notAppended # <<>>
        /\ c = Head(Frame.notAppended) /\ g.components = <<>>
        /\ g.notAppended = Tail(Frame.notAppended)
        /\ h.component = c /\ h.version = 0 /\ TopCalls(g, h) /\ UNCHANGED <<toInstall, toCheck>>
    BY <1>12 DEF Begins
  <2>2. Range(Frame.notAppended) = {c} \cup Range(g.notAppended) /\ Range(g.components) = {}
    <3>1. Range(<<>>) = {}
      BY DEF Range
    <3> QED
      BY <1>5, <2>1, <3>1, RangeHeadTail
  <2>3. Called({g, h} \cup Below) = Called(Below) \cup (IF WillAdd(h) THEN {c} ELSE {})
    BY <1>5, <2>1 DEF Called
  <2>4. wanted = Wanted \cup (IF WillAdd(h) THEN {c} ELSE {})
    <3>1. Range(installStack') = {g, h} \cup Below /\ toInstall' = toInstall
      BY <1>3, <2>1
    <3>2. Wanted = toInstall \cup Called(Below)
      BY <1>5, <1>8, <2>1
    <3> QED
      BY <2>3, <3>1, <3>2 DEF wanted
  <2>5. WillAdd(h) => installed[c] = 0 \/ IsUpdateAvailable(c)
    BY <2>1 DEF WillAdd, IsInstalled
  <2>6. \A x \in Of(g) : IsUpdateAvailable(x) => UpdateRequested(x) \/ FollowsUpdate(x, toInstall)
    BY <1>5, <1>6, <2>1, <2>2 DEF Of
  <2>7. \A x \in wanted \ Wanted : Fine(x)
    BY <1>6, <2>1, <2>2, <2>4, <2>5 DEF Fine
  <2>8. h.call # "solve"
    BY <1>5
  <2> QED
    BY <1>3, <1>9, <2>1, <2>4, <2>6, <2>7, <2>8
<1>13. CASE Ends
  <2>1. /\ Frame \in SolveFrames /\ TopReturns /\ toCheck' = {} /\ toInstall' = toInstall
    BY <1>13 DEF Ends
  <2>2. wanted = Wanted
    BY <1>3, <1>5, <1>8, <2>1 DEF wanted
  <2> QED
    BY <1>3, <1>9, <2>1, <2>2
<1>14. ASSUME NEW g \in SolveFrames, Follows(g) PROVE ReasonsInStep'
  <2>1. /\ Frame \in SolveFrames /\ g.notAppended = <<>> /\ TopBecomes(g) /\ toCheck' = {}
        /\ Range(g.components) = AutoDependencyComponents /\ toInstall' = toInstall
    BY <1>14 DEF Follows
  <2>2. Called({g} \cup Below) = Called(Below)
    BY <1>5 DEF Called
  <2>3. wanted = Wanted
    BY <1>3, <1>5, <1>8, <2>1, <2>2 DEF wanted
  <2>4. ASSUME NEW x \in Of(g), IsUpdateAvailable(x) PROVE FollowsUpdate(x, toInstall)
    <3>1. x \in AutoDependencyComponents
      BY <1>5, <2>1, <2>4 DEF Of, Range
    <3>2. PICK c \in toCheck \cap product.autoDependOn[x] : mode = "Updater" => UpdateRequested(c)
      BY <3>1 DEF AutoDependencyComponents
    <3>3. UpdateRequested(c)
      BY <2>4, <3>2 DEF IsUpdateAvailable
    <3>4. c \in toInstall
      BY <1>1, <3>2, <3>3 DEF ReasonsInStep
    <3> QED
      BY <2>4, <3>2, <3>4 DEF FollowsUpdate
  <2> QED
    BY <1>3, <1>9, <2>1, <2>3, <2>4
<1>15. ASSUME Frame \in ComponentFrames, Frame.dependencies # <<>>
       PROVE  /\ Range(Frame.dependencies) \subseteq Range(CurrentDependencies(Frame.component))
              /\ Dependency \in Range(CurrentDependencies(Frame.component))
              /\ Frame.component \in Components
  <2>1. Frame = installStack[1] /\ 1 \in DOMAIN installStack
    BY <1>1, InstallPositions
  <2>2. LoopOK(1, installStack, toInstall)
    BY <1>5, <1>15, <2>1 DEF DependenciesInStep
  <2>3. Range(Frame.dependencies) \subseteq Range(CurrentDependencies(Frame.component))
    BY <2>1, <2>2 DEF LoopOK
  <2> QED
    BY <1>5, <1>15, <2>3, RangeHeadTail DEF Dependency
<1>16. ASSUME NEW g \in ComponentFrames, Skips(g) PROVE ReasonsInStep'
  <2>1. /\ Frame \in ComponentFrames /\ Frame.dependencies # <<>>
        /\ g.component = Frame.component /\ g.version = RequiredVersion
        /\ TopBecomes(g) /\ UNCHANGED <<toInstall, toCheck>>
    BY <1>16 DEF Skips
  <2>2. WillAdd(g) <=> WillAdd(Frame)
    BY <1>15, <2>1, WillAddStays
  <2>3. Called({g} \cup Below) = Called(Below) \cup (IF WillAdd(g) THEN {g.component} ELSE {})
    BY <1>5 DEF Called
  <2>4. wanted = Wanted
    BY <1>3, <1>5, <1>8, <2>1, <2>2, <2>3 DEF wanted
  <2>5. g.call # "solve"
    BY <1>5
  <2> QED
    BY <1>3, <1>9, <2>1, <2>4, <2>5
<1>17. ASSUME NEW g \in ComponentFrames, NEW h \in ComponentFrames, Descends(g, h)
       PROVE  ReasonsInStep'
  <2>1. /\ Frame \in ComponentFrames /\ Frame.dependencies # <<>> /\ IsFound(Dependency)
        /\ Dependency \in Requirements /\ MustSolve
        /\ g.component = Frame.component /\ g.version = RequiredVersion
        /\ h.component = Dependency.name /\ h.version = RequiredVersion
        /\ TopCalls(g, h) /\ UNCHANGED <<toInstall, toCheck>>
    BY <1>17 DEF Descends
  <2>2. WillAdd(g) <=> WillAdd(Frame)
    BY <1>15, <2>1, WillAddStays
  <2>3. Called({g, h} \cup Below) = Called(Below)
          \cup (IF WillAdd(g) THEN {g.component} ELSE {}) \cup (IF WillAdd(h) THEN {h.component} ELSE {})
    BY <1>5 DEF Called
  <2>4. wanted \subseteq Wanted \cup {h.component} /\ Wanted \subseteq wanted
    BY <1>3, <1>5, <1>8, <2>1, <2>2, <2>3 DEF wanted
  <2>5. Fine(h.component)
    <3>1. CASE installed[Dependency.name] = 0 \/ UpdateRequested(Dependency.name)
      BY <2>1, <3>1 DEF Fine
    <3>2. CASE IsUpdateRequired(Dependency)
      <4>1. installed[Frame.component] = 0 \/ UpdateRequested(Frame.component)
        BY <1>15, <2>1, <3>2, NoLocalUpdate
      <4>2. WillAdd(Frame)
        BY <4>1 DEF WillAdd, IsInstalled, UpdateRequested
      <4>3. Frame.component \in Wanted
        BY <1>5, <1>8, <2>1, <4>2
      <4>4. Required(h.component, Wanted)
        BY <1>15, <2>1, <3>2, <4>3 DEF Required
      <4> QED
        BY <4>4 DEF Fine
    <3> QED
      BY <2>1, <3>1, <3>2 DEF MustSolve
  <2>6. g.call # "solve" /\ h.call # "solve"
    BY <1>5
  <2> QED
    BY <1>3, <1>9, <2>1, <2>4, <2>5, <2>6
<1>18. CASE Completes
  <2>1. /\ Frame \in ComponentFrames /\ TopReturns /\ Frame.component \in Components
    BY <1>5, <1>18 DEF Completes
  <2>2. /\ \A x \in wanted : x \in Wanted
        /\ toCheck' \subseteq toCheck \cup {Frame.component}
        /\ WillAdd(Frame) => Frame.component \in toInstall'
        /\ toCheck' = toCheck \/ (IsUpdateAvailable(Frame.component) => Frame.component \in toInstall')
    <3>1. CASE Frame.component \in toInstall
      BY <1>3, <1>8, <1>18, <2>1, <3>1 DEF Completes, wanted
    <3>2. CASE Frame.component \notin toInstall
      <4>1. AddComponentForInstall(Frame.component, Frame.version)
        BY <1>18, <3>2 DEF Completes
      <4>2. /\ toCheck' = toCheck \cup {Frame.component}
            /\ \/ WillAdd(Frame) /\ toInstall' = toInstall \cup {Frame.component}
               \/ /\ ~WillAdd(Frame) /\ ~IsUpdateAvailable(Frame.component)
                  /\ toInstall' = toInstall
        BY <2>1, <4>1, AddType DEF WillAdd
      <4> QED
        BY <1>3, <1>5, <1>8, <2>1, <4>2 DEF wanted
    <3> QED
      BY <3>1, <3>2
  <2>3. Wanted \subseteq wanted
    BY <1>2, <1>3, <1>5, <1>8, <2>1, <2>2 DEF wanted
  <2>4. UpdateRequested(Frame.component) => IsUpdateAvailable(Frame.component)
    BY DEF UpdateRequested
  <2>5. \A c \in toCheck' \ toCheck : UpdateRequested(c) => c \in toInstall'
    BY <2>2, <2>4
  <2> QED
    BY <1>3, <1>9, <2>1, <2>2, <2>3, <2>5
<1>19. ~Fails
  BY DEF Fails
<1> QED
  BY InstallerSteps, <1>10, <1>11, <1>12, <1>13, <1>14, <1>16, <1>17, <1>18, <1>19

-----------------------------------------------------------------------------
(* What each step of the calculation of the removal does                   *)

RemovalFrames == RemoveFrames \cup DependentFrames

LEMMA RemovalFields ==
  ASSUME NEW f \in RemovalFrames
  PROVE  /\ f.call \in {"solve", "solveComponent"}
         /\ f.call = "solve" <=> f \in RemoveFrames
         /\ f.call = "solveComponent" <=> f \in DependentFrames
         /\ f \in RemoveFrames => /\ f.components \in Seq(Components)
                                  /\ f.all \in SUBSET Components
                                  /\ f.ignored \in BOOLEAN
         /\ f \in DependentFrames => /\ f.component \in Components
                                     /\ f.dependents \in Seq(Components)
  BY DEF RemovalFrames, RemoveFrames, DependentFrames

\* What the loop of a call has still to look at, and what it is for: to remove
\* all of these.
Remains(f) == Range(IF f.call = "solve" THEN f.components ELSE f.dependents)

Goal(f) == IF f.call = "solve" THEN f.all ELSE LocalDependents(f.component) \ Range(resolved)

\* A call of solve() or solveComponent() calls solveComponent() for d.
CallsFor(d, g, h) ==
  /\ RemoveFrame \in RemovalFrames /\ d \in Components /\ g \in RemovalFrames
  /\ g.call = RemoveFrame.call /\ Goal(g) = Goal(RemoveFrame)
  /\ Remains(RemoveFrame) = {d} \cup Remains(g)
  /\ RemoveFrame.call = "solveComponent" =>
       g.component = RemoveFrame.component /\ d \notin product.forced
  /\ h \in DependentFrames /\ h.component = d /\ Remains(h) = LocalDependents(d)
  /\ removeStack' = <<h, g>> \o RemoveCallers
  /\ UNCHANGED <<unresolved, removeResult, removeError>>

\* A dependent is settled already.
PassesOver(d, g) ==
  /\ RemoveFrame \in DependentFrames /\ g \in DependentFrames
  /\ g.component = RemoveFrame.component /\ Goal(g) = Goal(RemoveFrame)
  /\ Remains(RemoveFrame) = {d} \cup Remains(g) /\ d \in Scheduled \cup Range(resolved)
  /\ removeStack' = <<g>> \o RemoveCallers
  /\ UNCHANGED <<unresolved, removeResult, removeError>>

\* All dependents of a component are settled.
Schedules ==
  /\ RemoveFrame \in DependentFrames /\ Remains(RemoveFrame) = {}
  /\ unresolved' = Append(unresolved, RemoveFrame.component)
  /\ removeStack' = RemoveCallers
  /\ UNCHANGED <<removeResult, removeError>>

\* solve() has come to its end and is called again for what follows.
CallsAgain(g) ==
  /\ RemoveFrame \in RemoveFrames /\ Remains(RemoveFrame) = {}
  /\ g \in RemoveFrames /\ Goal(g) = Remains(g)
  /\ Remains(g) \subseteq AutoDependents \cup UnneededVirtuals
  /\ removeStack' = <<g>>
  /\ UNCHANGED <<unresolved, removeResult, removeError>>

\* It has come to its end, or to a dependent that is forced, or to none.
Solved ==
  /\ RemoveFrame \in RemoveFrames /\ Remains(RemoveFrame) = {}
  /\ removeStack' = <<>> /\ removeResult' = "solved"
  /\ UNCHANGED <<unresolved, removeError>>

GivesUp ==
  /\ removeStack' = <<>>
  /\ \/ removeResult' = "overflow" /\ UNCHANGED removeError
     \/ removeResult' \in {"solved", "failed"} /\ removeError' = TRUE
  /\ UNCHANGED unresolved

LEMMA RemovalSteps ==
  ASSUME ComponentTypeOK, UninstallerTypeOK, UninstallerNext
  PROVE  /\ removeStack # <<>>
         /\ \/ \E d \in Components, g \in RemovalFrames, h \in DependentFrames : CallsFor(d, g, h)
            \/ \E d \in Components, g \in DependentFrames : PassesOver(d, g)
            \/ Schedules \/ (\E g \in RemoveFrames : CallsAgain(g)) \/ Solved \/ GivesUp
<1>1. removeStack # <<>>
  BY DEF UninstallerNext, RemoveNext, SolveFollowing, SkipDependent, ForcedDependent,
         RemoveDependent, RemoveForever, DependentsSolved, InRemoval, AtDependent
<1>2. RemoveFrame \in RemovalFrames /\ RemoveFrame = Head(removeStack)
  BY <1>1, RangeHeadTail DEF UninstallerTypeOK, RemovalFrames, RemoveFrame
<1>3. InRemoval("solve") => RemoveFrame \in RemoveFrames
  BY <1>2, RemovalFields DEF InRemoval
<1>4. InRemoval("solveComponent") => RemoveFrame \in DependentFrames
  BY <1>2, RemovalFields DEF InRemoval
<1>5. \A c \in Components : \A order \in Orders(LocalDependents(c)) :
        LET h == [call |-> "solveComponent", component |-> c, dependents |-> order] IN
        h \in DependentFrames /\ h.component = c /\ Remains(h) = LocalDependents(c)
  <2> SUFFICES ASSUME NEW c \in Components, NEW order \in Orders(LocalDependents(c))
               PROVE  LET h == [call |-> "solveComponent", component |-> c, dependents |-> order] IN
                      h \in DependentFrames /\ h.component = c /\ Remains(h) = LocalDependents(c)
    OBVIOUS
  <2>1. LocalDependents(c) \subseteq Components
    BY DEF LocalDependents
  <2>2. order \in Seq(Components) /\ Range(order) = LocalDependents(c)
    BY <2>1, OrderProperties
  <2> QED
    BY <2>2 DEF DependentFrames, Remains
<1>6. \A S \in SUBSET Components : \A order \in Orders(S) :
        LET g == SolveRemoval(order, TRUE) IN
        g \in RemoveFrames /\ Goal(g) = Remains(g) /\ Remains(g) = S
  <2> SUFFICES ASSUME NEW S \in SUBSET Components, NEW order \in Orders(S)
               PROVE  LET g == SolveRemoval(order, TRUE) IN
                      g \in RemoveFrames /\ Goal(g) = Remains(g) /\ Remains(g) = S
    OBVIOUS
  <2>1. order \in Seq(Components) /\ Range(order) = S
    BY OrderProperties
  <2> QED
    BY <2>1 DEF RemoveFrames, Remains, Goal, SolveRemoval
<1>7. ASSUME RemoveFrame \in RemoveFrames, RemoveFrame.components # <<>>
      PROVE  LET g == [RemoveFrame EXCEPT !.components = Tail(@)]
                 d == Head(RemoveFrame.components) IN
             /\ d \in Components /\ g \in RemoveFrames /\ g.call = RemoveFrame.call
             /\ Goal(g) = Goal(RemoveFrame) /\ Remains(RemoveFrame) = {d} \cup Remains(g)
  <2>1. /\ Head(RemoveFrame.components) \in Components
        /\ Tail(RemoveFrame.components) \in Seq(Components)
        /\ Range(RemoveFrame.components)
             = {Head(RemoveFrame.components)} \cup Range(Tail(RemoveFrame.components))
    BY <1>7, RangeHeadTail DEF RemoveFrames
  <2> QED
    BY <1>7, <2>1 DEF RemoveFrames, Remains, Goal
<1>8. ASSUME RemoveFrame \in DependentFrames, RemoveFrame.dependents # <<>>
      PROVE  LET g == [RemoveFrame EXCEPT !.dependents = Tail(@)] IN
             /\ Dependent \in Components /\ g \in DependentFrames /\ g.call = RemoveFrame.call
             /\ g.component = RemoveFrame.component
             /\ Goal(g) = Goal(RemoveFrame) /\ Remains(RemoveFrame) = {Dependent} \cup Remains(g)
  <2>1. /\ Dependent \in Components
        /\ Tail(RemoveFrame.dependents) \in Seq(Components)
        /\ Range(RemoveFrame.dependents) = {Dependent} \cup Range(Tail(RemoveFrame.dependents))
    BY <1>8, RangeHeadTail DEF DependentFrames, Dependent
  <2> QED
    BY <1>8, <2>1 DEF DependentFrames, Remains, Goal
<1>9. /\ \A f \in RemoveFrames : f.call = "solve" /\ f \in RemovalFrames
                                 /\ (f.components = <<>> => Remains(f) = {})
      /\ \A f \in DependentFrames : f.call = "solveComponent" /\ f \in RemovalFrames
                                    /\ (f.dependents = <<>> => Remains(f) = {})
  BY DEF RemoveFrames, DependentFrames, RemovalFrames, Remains, Range
<1>10. ASSUME RemoveNext
       PROVE  \E d \in Components, g \in RemovalFrames, h \in DependentFrames : CallsFor(d, g, h)
  <2> DEFINE d == Head(RemoveFrame.components)
             g == [RemoveFrame EXCEPT !.components = Tail(@)]
  <2>1. RemoveFrame \in RemoveFrames /\ RemoveFrame.components # <<>>
    BY <1>3, <1>10 DEF RemoveNext
  <2>2. PICK order \in Orders(LocalDependents(d)) :
          /\ removeStack' = <<[call |-> "solveComponent", component |-> d, dependents |-> order], g>>
                              \o RemoveCallers
          /\ UNCHANGED <<unresolved, removeResult, removeError>>
    BY <1>10 DEF RemoveNext
  <2>3. /\ d \in Components /\ g \in RemoveFrames /\ g.call = RemoveFrame.call
        /\ Goal(g) = Goal(RemoveFrame) /\ Remains(RemoveFrame) = {d} \cup Remains(g)
    BY <1>7, <2>1
  <2> HIDE DEF d, g
  <2> DEFINE h == [call |-> "solveComponent", component |-> d, dependents |-> order]
  <2>4. h \in DependentFrames /\ h.component = d /\ Remains(h) = LocalDependents(d)
    BY <1>5, <2>3
  <2> HIDE DEF h
  <2>5. CallsFor(d, g, h)
    BY <1>9, <2>1, <2>2, <2>3, <2>4 DEF CallsFor, h
  <2> QED
    BY <1>9, <2>3, <2>4, <2>5
<1>11. ASSUME RemoveDependent
       PROVE  \E d \in Components, g \in RemovalFrames, h \in DependentFrames : CallsFor(d, g, h)
  <2> DEFINE g == [RemoveFrame EXCEPT !.dependents = Tail(@)]
  <2>1. RemoveFrame \in DependentFrames /\ RemoveFrame.dependents # <<>>
        /\ Dependent \notin product.forced
    BY <1>4, <1>11 DEF RemoveDependent, AtDependent
  <2>2. PICK order \in Orders(LocalDependents(Dependent)) :
          /\ removeStack' = <<[call |-> "solveComponent", component |-> Dependent,
                               dependents |-> order], g>> \o RemoveCallers
          /\ UNCHANGED <<unresolved, removeResult, removeError>>
    BY <1>11 DEF RemoveDependent
  <2>3. /\ Dependent \in Components /\ g \in DependentFrames /\ g.call = RemoveFrame.call
        /\ g.component = RemoveFrame.component
        /\ Goal(g) = Goal(RemoveFrame) /\ Remains(RemoveFrame) = {Dependent} \cup Remains(g)
    BY <1>8, <2>1
  <2> HIDE DEF g
  <2> DEFINE h == [call |-> "solveComponent", component |-> Dependent, dependents |-> order]
  <2>4. h \in DependentFrames /\ h.component = Dependent /\ Remains(h) = LocalDependents(Dependent)
    BY <1>5, <2>3
  <2> HIDE DEF h
  <2>5. CallsFor(Dependent, g, h)
    BY <1>9, <2>1, <2>2, <2>3, <2>4 DEF CallsFor, h
  <2> QED
    BY <1>9, <2>3, <2>4, <2>5
<1>12. ASSUME SkipDependent PROVE \E d \in Components, g \in DependentFrames : PassesOver(d, g)
  <2> DEFINE g == [RemoveFrame EXCEPT !.dependents = Tail(@)]
  <2>1. RemoveFrame \in DependentFrames /\ RemoveFrame.dependents # <<>>
        /\ Dependent \in Scheduled \cup Range(resolved) /\ removeStack' = <<g>> \o RemoveCallers
        /\ UNCHANGED <<unresolved, removeResult, removeError>>
    BY <1>4, <1>12 DEF SkipDependent, AtDependent, Settled
  <2>2. /\ Dependent \in Components /\ g \in DependentFrames /\ g.component = RemoveFrame.component
        /\ Goal(g) = Goal(RemoveFrame) /\ Remains(RemoveFrame) = {Dependent} \cup Remains(g)
    BY <1>8, <2>1
  <2> HIDE DEF g
  <2> QED
    BY <2>1, <2>2 DEF PassesOver
<1>13. ASSUME DependentsSolved PROVE Schedules
  BY <1>4, <1>9, <1>13 DEF DependentsSolved, Schedules
<1>14. ASSUME SolveFollowing PROVE Solved \/ \E g \in RemoveFrames : CallsAgain(g)
  <2> DEFINE following == IF AutoDependents # {} THEN AutoDependents ELSE UnneededVirtuals
  <2>1. RemoveFrame \in RemoveFrames /\ Remains(RemoveFrame) = {}
    BY <1>3, <1>9, <1>14 DEF SolveFollowing
  <2>2. following \subseteq Components /\ following \subseteq AutoDependents \cup UnneededVirtuals
    BY DEF AutoDependents, UnneededVirtuals, InstalledSet
  <2>3. CASE following = {}
    BY <1>14, <2>1, <2>3 DEF SolveFollowing, Solved
  <2>4. CASE following # {}
    <3>1. PICK order \in Orders(following) :
            /\ removeStack' = <<SolveRemoval(order, TRUE)>>
            /\ UNCHANGED <<unresolved, removeResult, removeError>>
      BY <1>14, <2>4 DEF SolveFollowing
    <3> HIDE DEF following
    <3> DEFINE g == SolveRemoval(order, TRUE)
    <3>2. g \in RemoveFrames /\ Goal(g) = Remains(g) /\ Remains(g) = following
      BY <1>6, <2>2
    <3> HIDE DEF g
    <3>3. CallsAgain(g)
      BY <2>1, <2>2, <3>1, <3>2 DEF CallsAgain, g
    <3> QED
      BY <3>2, <3>3
  <2> QED
    BY <2>3, <2>4
<1>15. ForcedDependent \/ RemoveForever => GivesUp
  BY DEF ForcedDependent, RemoveForever, GivesUp
<1> QED
  BY <1>1, <1>10, <1>11, <1>12, <1>13, <1>14, <1>15 DEF UninstallerNext

LEMMA UninstallerTypes ==
  ASSUME ComponentTypeOK, UninstallerTypeOK, UninstallerNext
  PROVE  UninstallerTypeOK'
<1>1. /\ unresolved \in Seq(Components) /\ removeStack \in Seq(RemovalFrames)
      /\ removeStack # <<>> /\ RemoveCallers = Tail(removeStack)
      /\ removeResult \in Results \cup {"overflow"} /\ removeError \in BOOLEAN
  BY RemovalSteps DEF UninstallerTypeOK, RemovalFrames, RemoveCallers
<1>2. RemoveFrames \subseteq RemovalFrames /\ DependentFrames \subseteq RemovalFrames
  BY DEF RemovalFrames
<1> DEFINE s == removeStack
           t == removeStack'
<1> HIDE DEF s, t
<1>3. ASSUME NEW f \in RemovalFrames, t = <<f>> \o Tail(s) PROVE t \in Seq(RemovalFrames)
  BY <1>1, <1>3, Replaced DEF s
<1>4. ASSUME NEW g \in RemovalFrames, NEW f \in RemovalFrames, t = <<g, f>> \o Tail(s)
      PROVE  t \in Seq(RemovalFrames)
  BY <1>1, <1>4, Pushed DEF s
<1>5. Tail(s) \in Seq(RemovalFrames)
  BY <1>1, Popped DEF s
<1> SUFFICES /\ unresolved' \in Seq(Components) /\ t \in Seq(RemovalFrames)
             /\ removeResult' \in Results \cup {"overflow"} /\ removeError' \in BOOLEAN
  BY DEF UninstallerTypeOK, RemovalFrames, t
<1>6. ASSUME NEW d, NEW g \in RemovalFrames, NEW h \in DependentFrames, CallsFor(d, g, h)
      PROVE  /\ t \in Seq(RemovalFrames)
             /\ UNCHANGED <<unresolved, removeResult, removeError>>
  BY <1>1, <1>2, <1>4, <1>6 DEF CallsFor, s, t
<1>7. ASSUME NEW d, NEW g \in DependentFrames, PassesOver(d, g)
      PROVE  /\ t \in Seq(RemovalFrames)
             /\ UNCHANGED <<unresolved, removeResult, removeError>>
  BY <1>1, <1>2, <1>3, <1>7 DEF PassesOver, s, t
<1>8. ASSUME Schedules
      PROVE  /\ t \in Seq(RemovalFrames) /\ unresolved' \in Seq(Components)
             /\ UNCHANGED <<removeResult, removeError>>
  <2>1. RemoveFrame.component \in Components
    BY <1>8 DEF Schedules, DependentFrames
  <2>2. Append(unresolved, RemoveFrame.component) \in Seq(Components)
    BY <1>1, <2>1, RangeAppend
  <2> QED
    BY <1>1, <1>5, <1>8, <2>2 DEF Schedules, s, t
<1>9. ASSUME NEW g \in RemoveFrames, CallsAgain(g)
      PROVE  /\ t \in Seq(RemovalFrames)
             /\ UNCHANGED <<unresolved, removeResult, removeError>>
  BY <1>2, <1>9 DEF CallsAgain, t
<1>10. CASE Solved
  BY <1>1, <1>10 DEF Solved, Results, t
<1>11. CASE GivesUp
  <2>1. unresolved' = unresolved /\ t = <<>> /\ removeResult' \in {"overflow", "solved", "failed"}
    BY <1>11 DEF GivesUp, t
  <2>2. removeError' \in BOOLEAN
    BY <1>1, <1>11 DEF GivesUp
  <2>3. t \in Seq(RemovalFrames) /\ removeResult' \in Results \cup {"overflow"}
    BY <2>1 DEF Results
  <2> QED
    BY <1>1, <2>1, <2>2, <2>3
<1> QED
  BY RemovalSteps, <1>1, <1>6, <1>7, <1>8, <1>9, <1>10, <1>11

-----------------------------------------------------------------------------
(* What is removed together                                                *)

\* There is one call of solve(), the outermost.
RemoveCallsOK ==
  /\ removeStack # <<>> <=> removeResult = "running"
  /\ \A i \in DOMAIN removeStack :
       removeStack[i].call = "solve" <=> i = Len(removeStack)

\* What a call is for is scheduled, still to be looked at, or in the next call;
\* and it looks at nothing but the dependents of its component.
RemovalOK(i, stack, gone) ==
  /\ Goal(stack[i]) \subseteq
       gone \cup Remains(stack[i]) \cup (IF i > 1 THEN {stack[i - 1].component} ELSE {})
  /\ stack[i].call = "solveComponent" =>
       Remains(stack[i]) \subseteq LocalDependents(stack[i].component)

\* What depends on a scheduled component is scheduled too, or replaced.
RemovalInStep ==
  /\ \A x \in Scheduled : LocalDependents(x) \subseteq Scheduled \cup Range(resolved)
  /\ \A i \in DOMAIN removeStack : RemovalOK(i, removeStack, Scheduled)

LEMMA RemovalBelow ==
  ASSUME NEW i \in Nat, NEW j \in Nat, i > 1, j > 1, NEW s, NEW t, NEW a, NEW b, a \subseteq b,
         t[i] = s[j], s[j - 1].component = t[i - 1].component, RemovalOK(j, s, a)
  PROVE  RemovalOK(i, t, b)
BY DEF RemovalOK

LEMMA RemovalPrime ==
  ASSUME UNCHANGED <<componentVars, resolved>>,
         \A x \in Range(unresolved') : LocalDependents(x) \subseteq Range(unresolved') \cup Range(resolved),
         \A i \in DOMAIN removeStack' : RemovalOK(i, removeStack', Range(unresolved'))
  PROVE  RemovalInStep'
<1>1. /\ \A c : LocalDependents(c)' = LocalDependents(c)
      /\ \A f : Goal(f)' = Goal(f)
      /\ \A f : Remains(f)' = Remains(f)
  BY DEF LocalDependents, Goal, LocalDependencies, componentVars, Remains
<1>2. ASSUME NEW i \in DOMAIN removeStack' PROVE RemovalOK(i, removeStack, Scheduled)'
  BY <1>1 DEF RemovalOK, Scheduled, Range
<1>3. \A x \in Scheduled' : LocalDependents(x)' \subseteq Scheduled' \cup Range(resolved)'
  BY <1>1 DEF Scheduled, Range
<1> QED
  BY <1>2, <1>3 DEF RemovalInStep, Scheduled, Range

LEMMA RemovalPositions ==
  ASSUME ComponentTypeOK, UninstallerTypeOK, RemoveCallsOK, removeStack # <<>>
  PROVE  /\ removeStack \in Seq(RemovalFrames)
         /\ Len(removeStack) \in Nat \ {0} /\ DOMAIN removeStack = 1 .. Len(removeStack)
         /\ RemoveFrame = removeStack[1] /\ RemoveFrame \in RemovalFrames
         /\ RemoveFrame \in RemoveFrames => Len(removeStack) = 1
         /\ RemoveFrame \in DependentFrames => Len(removeStack) > 1
         /\ \A i \in 1 .. Len(removeStack) : removeStack[i].call = "solve" <=> i = Len(removeStack)
<1>1. removeStack \in Seq(RemovalFrames)
  BY DEF UninstallerTypeOK, RemovalFrames
<1>2. /\ Len(removeStack) \in Nat \ {0} /\ DOMAIN removeStack = 1 .. Len(removeStack)
      /\ RemoveFrame = removeStack[1] /\ RemoveFrame \in RemovalFrames
  BY <1>1, RangeHeadTail, RangeType DEF RemoveFrame
<1>3. 1 \in DOMAIN removeStack
  BY <1>2
<1>4. \A i \in 1 .. Len(removeStack) : removeStack[i].call = "solve" <=> i = Len(removeStack)
  BY <1>2 DEF RemoveCallsOK
<1>5. RemoveFrame.call = "solve" <=> 1 = Len(removeStack)
  BY <1>2, <1>3, <1>4
<1>6. /\ RemoveFrame \in RemoveFrames => RemoveFrame.call = "solve"
      /\ RemoveFrame \in DependentFrames => RemoveFrame.call # "solve"
  BY DEF RemoveFrames, DependentFrames
<1>7. RemoveFrame \in RemoveFrames => Len(removeStack) = 1
  BY <1>5, <1>6
<1>8. RemoveFrame \in DependentFrames => Len(removeStack) > 1
  BY <1>2, <1>5, <1>6
<1> QED
  BY <1>1, <1>2, <1>4, <1>7, <1>8

LEMMA RemovalKept ==
  ASSUME ComponentTypeOK, UninstallerTypeOK, RemoveCallsOK, RemovalInStep, UninstallerNext,
         UNCHANGED <<componentVars, resolved>>
  PROVE  RemoveCallsOK' /\ RemovalInStep'
<1> DEFINE n == Len(removeStack)
           s == removeStack
           t == removeStack'
           a == Scheduled
           b == Range(unresolved')
<1>1. /\ s # <<>> /\ s \in Seq(RemovalFrames) /\ n \in Nat \ {0} /\ DOMAIN s = 1 .. n
      /\ RemoveFrame = s[1] /\ RemoveFrame \in RemovalFrames
      /\ RemoveFrame \in RemoveFrames => n = 1
      /\ RemoveFrame \in DependentFrames => n > 1
      /\ \A i \in 1 .. n : s[i].call = "solve" <=> i = n
      /\ removeResult = "running"
  BY RemovalSteps, RemovalPositions DEF RemoveCallsOK
<1>2. \A i \in 1 .. n : RemovalOK(i, s, a)
  BY <1>1 DEF RemovalInStep
<1>3. RemoveCallers = Tail(s)
  BY DEF RemoveCallers
<1>4. \A f \in DependentFrames : f.call # "solve" /\ f \in RemovalFrames
  BY DEF DependentFrames, RemovalFrames
<1>5. \A f \in RemoveFrames : f.call = "solve" /\ f \in RemovalFrames
  BY DEF RemoveFrames, RemovalFrames
<1> HIDE DEF s, t
<1>6. ASSUME t = <<>>, removeResult' # "running", unresolved' = unresolved
      PROVE  RemoveCallsOK' /\ RemovalInStep'
  <2>1. RemovalInStep'
    BY <1>6, RemovalPrime DEF t, RemovalInStep, Scheduled
  <2> QED
    BY <1>6, <2>1 DEF RemoveCallsOK, t
<1> HIDE DEF n, a, b
<1>7. ASSUME NEW d \in Components, NEW g \in RemovalFrames, NEW h \in DependentFrames, CallsFor(d, g, h)
      PROVE  RemoveCallsOK' /\ RemovalInStep'
  <2>1. /\ g.call = s[1].call /\ Goal(g) = Goal(s[1]) /\ Remains(s[1]) = {d} \cup Remains(g)
        /\ s[1].call = "solveComponent" => g.component = s[1].component
        /\ h.component = d /\ Remains(h) = LocalDependents(d)
        /\ t = <<h, g>> \o Tail(s) /\ removeResult' = removeResult /\ unresolved' = unresolved
    BY <1>1, <1>3, <1>7 DEF CallsFor, t
  <2>2. /\ t # <<>> /\ t \in Seq(RemovalFrames) /\ Len(t) = n + 1 /\ t[1] = h /\ t[2] = g
        /\ \A i \in 3 .. n + 1 : t[i] = s[i - 1]
    <3>1. s \in Seq(RemovalFrames) /\ s # <<>> /\ h \in RemovalFrames /\ n = Len(s)
      BY <1>1, <1>4 DEF n, s
    <3> QED
      BY <2>1, <3>1, Pushed
  <2>3. DOMAIN t = 1 .. n + 1
    BY <2>2, RangeType
  <2>4. \A i \in 1 .. n + 1 : \/ i = 1 \/ i = 2
                              \/ i \in 3 .. n + 1 /\ i - 1 \in 1 .. n /\ i \in Nat /\ i - 1 \in Nat
                                 /\ i > 1 /\ i - 1 > 1 /\ (i = n + 1 <=> i - 1 = n)
    BY <1>1
  <2>5. RemoveCallsOK'
    <3>1. ASSUME NEW i \in 1 .. n + 1 PROVE t[i].call = "solve" <=> i = n + 1
      <4>1. CASE i = 1
        BY <1>1, <1>4, <2>2, <4>1
      <4>2. CASE i = 2
        <5>1. 1 \in 1 .. n /\ (i = n + 1 <=> 1 = n)
          BY <1>1, <4>2
        <5> QED
          BY <1>1, <2>1, <2>2, <4>2, <5>1
      <4>3. CASE i \in 3 .. n + 1 /\ i - 1 \in 1 .. n /\ (i = n + 1 <=> i - 1 = n)
        BY <1>1, <2>2, <4>3
      <4> QED
        BY <2>4, <4>1, <4>2, <4>3
    <3> QED
      BY <1>1, <2>1, <2>2, <2>3, <3>1 DEF RemoveCallsOK, t
  <2>6. a = b
    BY <2>1 DEF a, b, Scheduled
  <2>7. RemovalOK(1, t, b)
    <3>1. Goal(h) \subseteq Remains(h)
      BY <1>4, <2>1 DEF Goal
    <3> QED
      BY <2>1, <2>2, <3>1 DEF RemovalOK
  <2>8. RemovalOK(2, t, b)
    <3>1. RemovalOK(1, s, a)
      BY <1>1, <1>2
    <3>2. 2 - 1 = 1 /\ 2 > 1 /\ ~(1 > 1)
      OBVIOUS
    <3> QED
      BY <1>1, <2>1, <2>2, <2>6, <3>1, <3>2, RemovalFields DEF RemovalOK
  <2>9. ASSUME NEW i \in 3 .. n + 1 PROVE RemovalOK(i, t, b)
    <3>1. /\ i \in Nat /\ i - 1 \in Nat /\ i > 1 /\ i - 1 > 1 /\ i - 1 \in 1 .. n
          /\ i = 3 \/ i - 1 \in 3 .. n + 1
          /\ i = 3 => n # 1
      BY <1>1
    <3>2. t[i - 1].component = s[i - 1 - 1].component
      <4>1. CASE i = 3
        <5>1. i - 1 = 2 /\ i - 1 - 1 = 1 /\ 1 # n /\ 1 \in 1 .. n
          BY <1>1, <3>1, <4>1
        <5>2. s[1].call # "solve"
          BY <1>1, <5>1
        <5> QED
          BY <1>1, <2>1, <2>2, <5>1, <5>2, RemovalFields
      <4>2. CASE i - 1 \in 3 .. n + 1
        BY <2>2, <4>2
      <4> QED
        BY <3>1, <4>1, <4>2
    <3>3. t[i] = s[i - 1] /\ RemovalOK(i - 1, s, a)
      BY <1>2, <2>2, <3>1
    <3> QED
      BY <2>6, <3>1, <3>2, <3>3, RemovalBelow
  <2>10. \A i \in DOMAIN t : RemovalOK(i, t, b)
    BY <2>3, <2>4, <2>7, <2>8, <2>9
  <2>11. RemovalInStep'
    <3>1. \A x \in Range(unresolved') : LocalDependents(x) \subseteq Range(unresolved') \cup Range(resolved)
      BY <2>1 DEF RemovalInStep, Scheduled
    <3> QED
      BY <2>10, <3>1, RemovalPrime DEF t, b
  <2> QED
    BY <2>5, <2>11
<1>8. ASSUME NEW d \in Components, NEW g \in DependentFrames, PassesOver(d, g)
      PROVE  RemoveCallsOK' /\ RemovalInStep'
  <2>1. /\ g.component = s[1].component /\ Goal(g) = Goal(s[1])
        /\ Remains(s[1]) = {d} \cup Remains(g) /\ d \in Scheduled \cup Range(resolved)
        /\ t = <<g>> \o Tail(s) /\ removeResult' = removeResult /\ unresolved' = unresolved
        /\ s[1] \in DependentFrames /\ n > 1
    BY <1>1, <1>3, <1>8 DEF PassesOver, t
  <2>2. /\ t # <<>> /\ t \in Seq(RemovalFrames) /\ Len(t) = n /\ t[1] = g
        /\ \A i \in 2 .. n : t[i] = s[i]
    <3>1. s \in Seq(RemovalFrames) /\ s # <<>> /\ g \in RemovalFrames /\ n = Len(s)
      BY <1>1, <1>4 DEF n, s
    <3> QED
      BY <2>1, <3>1, Replaced
  <2>3. DOMAIN t = 1 .. n
    BY <2>2, RangeType
  <2>4. \A i \in 1 .. n : i = 1 \/ (i \in 2 .. n /\ i \in Nat /\ i > 1)
    BY <1>1
  <2>5. RemoveCallsOK'
    <3>1. ASSUME NEW i \in 1 .. n PROVE t[i].call = "solve" <=> i = n
      <4>1. CASE i = 1
        BY <1>4, <2>1, <2>2, <4>1
      <4>2. CASE i \in 2 .. n
        BY <1>1, <2>2, <4>2
      <4> QED
        BY <2>4, <4>1, <4>2
    <3> QED
      BY <1>1, <2>1, <2>2, <2>3, <3>1 DEF RemoveCallsOK, t
  <2>6. a = b
    BY <2>1 DEF a, b, Scheduled
  <2>7. RemovalOK(1, t, b)
    <3>1. RemovalOK(1, s, a)
      BY <1>1, <1>2
    <3>2. s[1].call = "solveComponent" /\ ~(1 > 1)
      BY <2>1 DEF DependentFrames
    <3>3. d \in a \/ d \notin Goal(s[1])
      BY <2>1, <3>2 DEF Goal, a
    <3> QED
      BY <2>1, <2>2, <2>6, <3>1, <3>2, <3>3 DEF RemovalOK
  <2>8. ASSUME NEW i \in 2 .. n PROVE RemovalOK(i, t, b)
    <3>1. i \in Nat /\ i > 1 /\ i \in 1 .. n /\ (i = 2 \/ i - 1 \in 2 .. n)
      BY <1>1
    <3>2. s[i - 1].component = t[i - 1].component
      <4>1. CASE i = 2
        <5>1. i - 1 = 1
          BY <4>1
        <5> QED
          BY <2>1, <2>2, <5>1
      <4>2. CASE i - 1 \in 2 .. n
        BY <2>2, <4>2
      <4> QED
        BY <3>1, <4>1, <4>2
    <3>3. t[i] = s[i] /\ RemovalOK(i, s, a)
      BY <1>2, <2>2, <3>1
    <3> QED
      BY <2>6, <3>1, <3>2, <3>3, RemovalBelow
  <2>9. \A i \in DOMAIN t : RemovalOK(i, t, b)
    BY <2>3, <2>4, <2>7, <2>8
  <2>10. RemovalInStep'
    <3>1. \A x \in Range(unresolved') : LocalDependents(x) \subseteq Range(unresolved') \cup Range(resolved)
      BY <2>1 DEF RemovalInStep, Scheduled
    <3> QED
      BY <2>9, <3>1, RemovalPrime DEF t, b
  <2> QED
    BY <2>5, <2>10
<1>9. ASSUME Schedules PROVE RemoveCallsOK' /\ RemovalInStep'
  <2> DEFINE c == RemoveFrame.component
  <2>1. /\ s[1] \in DependentFrames /\ Remains(s[1]) = {} /\ n > 1 /\ c = s[1].component
        /\ t = Tail(s) /\ unresolved' = Append(unresolved, c) /\ removeResult' = removeResult
        /\ c \in Components
    BY <1>1, <1>3, <1>9 DEF Schedules, t, DependentFrames
  <2>2. /\ Len(t) = n - 1 /\ t \in Seq(RemovalFrames) /\ t # <<>>
        /\ \A i \in 1 .. n - 1 : t[i] = s[i + 1]
    <3>1. /\ Len(t) = n - 1 /\ t \in Seq(RemovalFrames) /\ (t = <<>> <=> n = 1)
          /\ \A i \in 1 .. n - 1 : t[i] = s[i + 1]
      BY <1>1, <2>1, Popped DEF n, s
    <3> QED
      BY <2>1, <3>1
  <2>3. DOMAIN t = 1 .. n - 1
    BY <2>2, RangeType
  <2>4. b = a \cup {c}
    BY <2>1, RangeAppend DEF a, b, Scheduled, UninstallerTypeOK
  <2> HIDE DEF c
  <2>5. RemoveCallsOK'
    <3>1. ASSUME NEW i \in 1 .. n - 1 PROVE t[i].call = "solve" <=> i = n - 1
      <4>1. i + 1 \in 1 .. n /\ (i + 1 = n <=> i = n - 1)
        BY <1>1
      <4> QED
        BY <1>1, <2>2, <4>1
    <3> QED
      BY <1>1, <2>1, <2>2, <2>3, <3>1 DEF RemoveCallsOK, t
  <2>6. LocalDependents(c) \subseteq a \cup Range(resolved)
    <3>1. RemovalOK(1, s, a) /\ ~(1 > 1)
      BY <1>1, <1>2
    <3>2. s[1].call = "solveComponent"
      BY <2>1 DEF DependentFrames
    <3> QED
      BY <2>1, <3>1, <3>2 DEF RemovalOK, Goal
  <2>7. ASSUME NEW i \in 1 .. n - 1 PROVE RemovalOK(i, t, b)
    <3>1. /\ i \in Nat /\ i + 1 \in Nat /\ i + 1 > 1 /\ i + 1 \in 1 .. n /\ i + 1 - 1 = i
          /\ i = 1 \/ (i > 1 /\ i - 1 \in 1 .. n - 1 /\ i - 1 + 1 = i)
      BY <1>1
    <3>2. t[i] = s[i + 1] /\ RemovalOK(i + 1, s, a)
      BY <1>2, <2>2, <3>1
    <3>3. CASE i = 1
      <4>1. t[1] = s[2] /\ RemovalOK(2, s, a) /\ 2 - 1 = 1 /\ 2 > 1
        BY <3>2, <3>3
      <4>2. RemovalOK(1, t, b)
        BY <2>1, <2>4, <4>1 DEF RemovalOK
      <4> QED
        BY <3>3, <4>2
    <3>4. CASE i > 1
      <4>1. t[i - 1] = s[i + 1 - 1]
        BY <2>2, <3>1, <3>4
      <4> QED
        BY <2>4, <3>1, <3>2, <3>4, <4>1, RemovalBelow
    <3> QED
      BY <3>1, <3>3, <3>4
  <2>8. RemovalInStep'
    <3>1. \A x \in b : LocalDependents(x) \subseteq b \cup Range(resolved)
      BY <2>4, <2>6 DEF RemovalInStep, a
    <3>2. \A i \in DOMAIN t : RemovalOK(i, t, b)
      BY <2>3, <2>7
    <3> QED
      BY <3>1, <3>2, RemovalPrime DEF t, b
  <2> QED
    BY <2>5, <2>8
<1>10. ASSUME NEW g \in RemoveFrames, CallsAgain(g) PROVE RemoveCallsOK' /\ RemovalInStep'
  <2>1. /\ Goal(g) = Remains(g) /\ t = <<g>> /\ unresolved' = unresolved
        /\ removeResult' = removeResult
    BY <1>10 DEF CallsAgain, t
  <2>2. DOMAIN t = {1} /\ Len(t) = 1 /\ t[1] = g /\ t # <<>>
    BY <2>1
  <2>3. RemoveCallsOK'
    BY <1>1, <1>5, <2>1, <2>2 DEF RemoveCallsOK, t
  <2>4. RemovalOK(1, t, b)
    BY <1>5, <2>1, <2>2 DEF RemovalOK
  <2>5. RemovalInStep'
    <3>1. \A x \in Range(unresolved') : LocalDependents(x) \subseteq Range(unresolved') \cup Range(resolved)
      BY <2>1 DEF RemovalInStep, Scheduled
    <3>2. \A i \in DOMAIN t : RemovalOK(i, t, b)
      BY <2>2, <2>4
    <3> QED
      BY <3>1, <3>2, RemovalPrime DEF t, b
  <2> QED
    BY <2>3, <2>5
<1>11. CASE Solved \/ GivesUp
  BY <1>6, <1>11 DEF Solved, GivesUp, t
<1> QED
  BY RemovalSteps, <1>7, <1>8, <1>9, <1>10, <1>11

-----------------------------------------------------------------------------
(* Why a component is removed                                              *)

LEMMA RangeConcat ==
  ASSUME NEW S, NEW p \in Seq(S), NEW s \in Seq(S)
  PROVE  Range(p \o s) = Range(p) \cup Range(s)
<1>1. ToSet(p \o s) = ToSet(p) \cup ToSet(s)
  BY ToSetConcat
<1> QED
  BY <1>1 DEF Range, ToSet

LEMMA RangeTuples ==
  ASSUME NEW S, NEW f \in S, NEW g \in S
  PROVE  /\ <<f>> \in Seq(S) /\ Range(<<f>>) = {f}
         /\ <<g, f>> \in Seq(S) /\ Range(<<g, f>>) = {g, f}
<1>1. <<f>> \in Seq(S) /\ Range(<<f>>) = {f}
  BY DEF Range
<1>2. <<g, f>> \in Seq(S) /\ DOMAIN <<g, f>> = 1 .. 2 /\ <<g, f>>[1] = g /\ <<g, f>>[2] = f
  OBVIOUS
<1>3. 1 .. 2 = {1, 2}
  OBVIOUS
<1> QED
  BY <1>1, <1>2, <1>3 DEF Range

\* The components a call is going to schedule.
ToGo(f) == IF f.call = "solve" THEN Remains(f) ELSE {f.component}

Going == Scheduled \cup UNION {ToGo(f) : f \in Range(removeStack)}

\* ReasonToRemove(), of what is scheduled or will be.
GoingReason(c, going, gone) ==
  \/ product.autoDependOn[c] \cap going # {}
  \/ /\ c \notin product.forced
     /\ \/ UninstallationRequested(c)
        \/ RequiredBy(LocalDependencies(c)) \cap going # {}
        \/ /\ c \in product.virtual
           /\ \A d \in InstalledSet \ gone : c \notin RequiredBy(LocalDependencies(d))

GoingInStep ==
  removeResult \in {"running", "solved"} /\ ~removeError =>
    \A c \in Going : GoingReason(c, Going, Scheduled)

LEMMA GoingReasonStays ==
  ASSUME NEW c, NEW w, NEW v, NEW a, NEW b, w \subseteq v, a \subseteq b, GoingReason(c, w, a)
  PROVE  GoingReason(c, v, b)
BY DEF GoingReason

LEMMA GoingPrime ==
  ASSUME UNCHANGED componentVars,
         NEW going, going = Range(unresolved') \cup UNION {ToGo(f) : f \in Range(removeStack')},
         \A c \in going : GoingReason(c, going, Range(unresolved'))
  PROVE  GoingInStep'
<1>1. Going' = going
  <2>1. \A f : ToGo(f)' = ToGo(f)
    BY DEF ToGo, Remains
  <2> QED
    BY <2>1 DEF Going, Scheduled, Range
<1>2. ASSUME NEW c \in going PROVE GoingReason(c, Going, Scheduled)'
  <2>1. /\ \A d : LocalDependencies(d)' = LocalDependencies(d)
        /\ InstalledSet' = InstalledSet /\ UninstallationRequested(c)' = UninstallationRequested(c)
        /\ product' = product /\ Scheduled' = Range(unresolved')
    BY DEF LocalDependencies, InstalledSet, UninstallationRequested, componentVars, Scheduled, Range
  <2>2. \A d : RequiredBy(LocalDependencies(d))' = RequiredBy(LocalDependencies(d))
    BY <2>1 DEF RequiredBy, Range
  <2> QED
    BY <1>1, <1>2, <2>1, <2>2 DEF GoingReason
<1> QED
  BY <1>1, <1>2 DEF GoingInStep

\* A virtual component that solve() removes is not needed by what stays.
LEMMA UnneededReason ==
  ASSUME ComponentTypeOK, Outdated(installed) = {}, \A d \in Components : installed[d] <= available[d],
         NEW c \in UnneededVirtuals, NEW going
  PROVE  GoingReason(c, going, Scheduled)
<1>1. /\ c \in Components /\ installed[c] # 0 /\ c \in product.virtual /\ c \notin product.forced
      /\ LocalDependenciesTo(c) \subseteq Scheduled
  BY DEF UnneededVirtuals, InstalledSet
<1>2. ASSUME NEW d \in InstalledSet \ Scheduled, c \in RequiredBy(LocalDependencies(d)) PROVE FALSE
  <2>1. PICK r \in Range(LocalDependencies(d)) : r.name = c
    BY <1>2 DEF RequiredBy
  <2>2. d \in Components /\ installed[d] # 0
    BY DEF InstalledSet
  <2>3. r \in Requirements /\ r.version \in 0..MaxVersion
    BY <2>2, DependencyTypes DEF Requirements
  <2>4. ~IsFound(r)
    BY <1>1, <2>1 DEF LocalDependenciesTo
  <2>5. ~(r.version <= installed[c])
    <3>1. /\ installed[c] \in Nat /\ available[c] \in Nat /\ r.version \in Nat
          /\ installed[c] <= available[c]
      BY <1>1, <2>3, ComponentAssumption DEF ComponentTypeOK, Versions
    <3> QED
      BY <2>1, <2>4, <3>1 DEF IsFound, VersionMatches
  <2> DEFINE m == <<d, r>>
  <2>6. m \in Components \X Requirements /\ m[1] = d /\ m[2] = r
    BY <2>2, <2>3
  <2>7. r \in Range(product.dependencies[d][installed[d]])
    BY <2>1, <2>2 DEF LocalDependencies
  <2>8. m \in Missing(installed)
    BY <2>1, <2>2, <2>5, <2>6, <2>7 DEF Missing, VersionMatches
  <2>9. m \in Outdated(installed)
    BY <1>1, <2>1, <2>6, <2>8 DEF Outdated
  <2> QED
    BY <2>9
<1> QED
  BY <1>1, <1>2 DEF GoingReason

LEMMA GoingKept ==
  ASSUME ComponentTypeOK, UninstallerTypeOK, RemoveCallsOK, RemovalInStep, GoingInStep,
         UninstallerNext, UNCHANGED componentVars, Outdated(installed) = {},
         \A d \in Components : installed[d] <= available[d]
  PROVE  GoingInStep'
<1> SUFFICES ASSUME removeResult' \in {"running", "solved"}, ~removeError'
             PROVE  GoingInStep'
  BY DEF GoingInStep
<1> DEFINE s == removeStack
           t == removeStack'
           below == Range(Tail(s))
           going == Range(unresolved') \cup UNION {ToGo(f) : f \in Range(t)}
<1>1. /\ s # <<>> /\ s \in Seq(RemovalFrames) /\ RemoveFrame = Head(s) /\ RemoveFrame = s[1]
      /\ 1 \in DOMAIN s /\ RemoveFrame \in RemovalFrames /\ RemoveCallers = Tail(s)
      /\ RemoveFrame \in RemoveFrames => Len(s) = 1
      /\ removeResult = "running"
  BY RemovalSteps, RemovalPositions DEF RemoveCallsOK, RemoveFrame, RemoveCallers
<1> HIDE DEF s, t
<1>2. Range(s) = {RemoveFrame} \cup below /\ Tail(s) \in Seq(RemovalFrames)
  BY <1>1, RangeHeadTail
<1>3. Len(s) = 1 => Tail(s) = <<>> /\ below = {}
  <2>1. Len(s) = 1 => Tail(s) = <<>>
    BY <1>1, Popped
  <2> QED
    BY <2>1 DEF Range
<1> HIDE DEF below
<1>4. Going = Scheduled \cup ToGo(RemoveFrame) \cup UNION {ToGo(f) : f \in below}
  BY <1>2 DEF Going, s
<1>5. ~removeError => \A c \in Going : GoingReason(c, Going, Scheduled)
  BY <1>1 DEF GoingInStep
<1> HIDE DEF going
<1>6. ASSUME ~removeError, Going \subseteq going, Scheduled \subseteq Range(unresolved'),
             \A c \in going \ Going : GoingReason(c, going, Range(unresolved'))
      PROVE  GoingInStep'
  <2>1. \A c \in going : GoingReason(c, going, Range(unresolved'))
    BY <1>5, <1>6, GoingReasonStays
  <2> QED
    BY <2>1, GoingPrime DEF going, t
<1>7. /\ \A f \in DependentFrames : f.call = "solveComponent" /\ f \in RemovalFrames
                                    /\ ToGo(f) = {f.component}
      /\ \A f \in RemoveFrames : f.call = "solve" /\ f \in RemovalFrames /\ ToGo(f) = Remains(f)
  BY DEF DependentFrames, RemoveFrames, RemovalFrames, ToGo
<1>8. ASSUME NEW d \in Components, NEW g \in RemovalFrames, NEW h \in DependentFrames, CallsFor(d, g, h)
      PROVE  GoingInStep'
  <2>1. /\ g.call = RemoveFrame.call /\ Remains(RemoveFrame) = {d} \cup Remains(g)
        /\ RemoveFrame.call = "solveComponent" =>
             g.component = RemoveFrame.component /\ d \notin product.forced
        /\ h.component = d /\ t = <<h, g>> \o Tail(s)
        /\ unresolved' = unresolved /\ ~removeError
    BY <1>1, <1>8 DEF CallsFor, t
  <2>2. Range(t) = {h, g} \cup below
    <3>1. h \in RemovalFrames /\ g \in RemovalFrames /\ Tail(s) \in Seq(RemovalFrames)
      BY <1>2, <1>7
    <3> DEFINE p == <<h, g>>
               q == Tail(s)
    <3>2. p \in Seq(RemovalFrames) /\ Range(p) = {h, g}
      BY <3>1, RangeTuples
    <3>3. q \in Seq(RemovalFrames) /\ t = p \o q /\ below = Range(q)
      BY <2>1, <3>1 DEF below
    <3> HIDE DEF p, q
    <3>4. Range(p \o q) = Range(p) \cup Range(q)
      BY <3>2, <3>3, RangeConcat
    <3> QED
      BY <3>2, <3>3, <3>4
  <2>3. going = Scheduled \cup {d} \cup ToGo(g) \cup UNION {ToGo(f) : f \in below}
    <3>1. ToGo(h) = {d}
      BY <1>7, <2>1
    <3>2. UNION {ToGo(f) : f \in {h, g} \cup below}
            = ToGo(h) \cup ToGo(g) \cup UNION {ToGo(f) : f \in below}
      OBVIOUS
    <3>3. Range(unresolved') = Scheduled
      BY <2>1 DEF Scheduled
    <3> QED
      BY <2>2, <3>1, <3>2, <3>3 DEF going
  <2>4. CASE RemoveFrame.call = "solve"
    <3>1. going = Going
      BY <1>4, <2>1, <2>3, <2>4 DEF ToGo
    <3> QED
      BY <1>6, <2>1, <3>1 DEF Scheduled
  <2>5. CASE RemoveFrame.call = "solveComponent"
    <3>1. going = Going \cup {d}
      BY <1>4, <2>1, <2>3, <2>5 DEF ToGo
    <3>2. RemoveFrame.component \in going
      BY <1>4, <2>5, <3>1 DEF ToGo
    <3>3. RemoveFrame.component \in RequiredBy(LocalDependencies(d))
      <4>1. RemovalOK(1, s, Scheduled)
        BY <1>1 DEF RemovalInStep, s
      <4>2. d \in LocalDependents(RemoveFrame.component)
        BY <1>1, <2>1, <2>5, <4>1 DEF RemovalOK
      <4>3. [name |-> RemoveFrame.component, version |-> 0] \in Range(LocalDependencies(d))
        BY <4>2 DEF LocalDependents
      <4>4. [name |-> RemoveFrame.component, version |-> 0].name = RemoveFrame.component
        OBVIOUS
      <4> QED
        BY <4>3, <4>4 DEF RequiredBy
    <3>4. GoingReason(d, going, Range(unresolved'))
      BY <2>1, <2>5, <3>2, <3>3 DEF GoingReason
    <3> QED
      BY <1>6, <2>1, <3>1, <3>4 DEF Scheduled
  <2> QED
    BY <1>1, <2>4, <2>5, RemovalFields
<1>9. ASSUME NEW d \in Components, NEW g \in DependentFrames, PassesOver(d, g)
      PROVE  GoingInStep'
  <2>1. /\ RemoveFrame \in DependentFrames /\ g.component = RemoveFrame.component
        /\ t = <<g>> \o Tail(s) /\ unresolved' = unresolved /\ ~removeError
    BY <1>1, <1>9 DEF PassesOver, t
  <2>2. Range(t) = {g} \cup below
    <3>1. g \in RemovalFrames /\ Tail(s) \in Seq(RemovalFrames)
      BY <1>2, <1>7
    <3> DEFINE p == <<g>>
               q == Tail(s)
    <3>2. p \in Seq(RemovalFrames) /\ Range(p) = {g}
      BY <3>1, RangeTuples
    <3>3. q \in Seq(RemovalFrames) /\ t = p \o q /\ below = Range(q)
      BY <2>1, <3>1 DEF below
    <3> HIDE DEF p, q
    <3>4. Range(p \o q) = Range(p) \cup Range(q)
      BY <3>2, <3>3, RangeConcat
    <3> QED
      BY <3>2, <3>3, <3>4
  <2>3. going = Going
    BY <1>4, <1>7, <2>1, <2>2 DEF going, Scheduled
  <2> QED
    BY <1>6, <2>1, <2>3 DEF Scheduled
<1>10. ASSUME Schedules PROVE GoingInStep'
  <2>1. /\ RemoveFrame \in DependentFrames /\ RemoveFrame.component \in Components
        /\ t = Tail(s) /\ unresolved' = Append(unresolved, RemoveFrame.component) /\ ~removeError
    BY <1>1, <1>10 DEF Schedules, DependentFrames, t
  <2>2. Range(unresolved') = Scheduled \cup {RemoveFrame.component}
    BY <2>1, RangeAppend DEF Scheduled, UninstallerTypeOK
  <2>3. going = Going
    BY <1>4, <1>7, <2>1, <2>2 DEF going, below
  <2> QED
    BY <1>6, <2>1, <2>2, <2>3
<1>11. ASSUME NEW g \in RemoveFrames, CallsAgain(g) PROVE GoingInStep'
  <2>1. /\ RemoveFrame \in RemoveFrames /\ Remains(RemoveFrame) = {}
        /\ Remains(g) \subseteq AutoDependents \cup UnneededVirtuals
        /\ t = <<g>> /\ unresolved' = unresolved /\ ~removeError
    BY <1>11 DEF CallsAgain, t
  <2>2. Going = Scheduled
    BY <1>1, <1>3, <1>4, <1>7, <2>1
  <2>3. going = Scheduled \cup Remains(g)
    <3>1. Range(t) = {g}
      BY <2>1 DEF Range
    <3> QED
      BY <1>7, <2>1, <3>1 DEF going, Scheduled
  <2>4. ASSUME NEW c \in AutoDependents PROVE GoingReason(c, going, Scheduled)
    <3>1. RemovalOK(1, s, Scheduled) /\ ~(1 > 1)
      BY <1>1 DEF RemovalInStep, s
    <3>2. RemoveFrame.all \subseteq Scheduled
      BY <1>1, <1>7, <2>1, <3>1 DEF RemovalOK, Goal
    <3> QED
      BY <2>3, <2>4, <3>2 DEF AutoDependents, GoingReason
  <2>5. \A c \in UnneededVirtuals : GoingReason(c, going, Scheduled)
    BY UnneededReason
  <2> QED
    BY <1>6, <2>1, <2>2, <2>3, <2>4, <2>5 DEF Scheduled
<1>12. CASE Solved
  <2>1. /\ RemoveFrame \in RemoveFrames /\ Remains(RemoveFrame) = {}
        /\ t = <<>> /\ unresolved' = unresolved /\ ~removeError
    BY <1>12 DEF Solved, t
  <2>2. Going = Scheduled
    BY <1>1, <1>3, <1>4, <1>7, <2>1
  <2>3. going = Scheduled
    BY <2>1 DEF going, Scheduled, Range
  <2> QED
    BY <1>6, <2>1, <2>2, <2>3 DEF Scheduled
<1>13. ~GivesUp
  BY DEF GivesUp
<1> QED
  BY RemovalSteps, <1>8, <1>9, <1>10, <1>11, <1>12, <1>13

-----------------------------------------------------------------------------
(* Beginnings and ends of the calculations                                 *)

\* What another part of the program does leaves the calculators as they are.
LEMMA InstallerStays ==
  ASSUME UNCHANGED installVars
  PROVE  /\ InstallerTypeOK => InstallerTypeOK'
         /\ InstallCallsOK => InstallCallsOK'
         /\ ListsInStep => ListsInStep'
<1>1. InstallerTypeOK => InstallerTypeOK'
  BY DEF InstallerTypeOK, installVars
<1>2. InstallCallsOK => InstallCallsOK'
  BY DEF InstallCallsOK, installVars
<1>3. ListsInStep => ListsInStep'
  BY DEF ListsInStep, NoRepeat, Range, installVars
<1> QED
  BY <1>1, <1>2, <1>3

LEMMA AutomaticStays ==
  ASSUME UNCHANGED <<componentVars, installVars>>, AutomaticInStep
  PROVE  AutomaticInStep'
<1>1. Pending' = Pending
  BY DEF Pending, Of, Range, installVars
<1>2. \A a : AutomaticDue(a)' = AutomaticDue(a)
  BY DEF AutomaticDue, InstalledSet, installVars, componentVars
<1>3. UNCHANGED <<product, mode, toInstall, toCheck, installResult>>
  BY DEF installVars, componentVars
<1> QED
  BY <1>1, <1>2, <1>3 DEF AutomaticInStep

LEMMA PlansStay ==
  ASSUME ComponentTypeOK, UNCHANGED <<componentVars, installVars>>
  PROVE  /\ DependenciesInStep => DependenciesInStep'
         /\ ReasonsInStep => ReasonsInStep'
<1>1. UNCHANGED <<resolved, toInstall, toCheck, installStack, installResult>>
  BY DEF installVars
<1>2. ASSUME DependenciesInStep PROVE DependenciesInStep'
  <2>1. OrderOK(resolved')
    BY <1>1, <1>2 DEF DependenciesInStep
  <2>2. \A i \in DOMAIN installStack' : installStack'[i].call = "solveComponent" =>
          LoopOK(i, installStack', toInstall')
    BY <1>1, <1>2 DEF DependenciesInStep
  <2> QED
    BY <2>1, <2>2, DependenciesPrime
<1>3. ASSUME ReasonsInStep PROVE ReasonsInStep'
  <2>1. CASE installResult = "failed"
    BY <1>1, <2>1 DEF ReasonsInStep
  <2>2. CASE installResult # "failed"
    <3> DEFINE wanted == toInstall' \cup Called(Range(installStack'))
    <3>1. wanted = Wanted
      BY <1>1 DEF Wanted
    <3>2. \A f \in Range(installStack') : f.call = "solve" =>
            \A c \in Of(f) : IsUpdateAvailable(c) => UpdateRequested(c) \/ FollowsUpdate(c, toInstall)
      BY <1>1, <1>3, <2>2 DEF ReasonsInStep
    <3> HIDE DEF wanted
    <3> QED
      BY <1>1, <1>3, <2>2, <3>1, <3>2, ReasonsPrime DEF wanted
  <2> QED
    BY <2>1, <2>2
<1> QED
  BY <1>2, <1>3

LEMMA UninstallerStays ==
  ASSUME UNCHANGED removeVars
  PROVE  /\ UninstallerTypeOK => UninstallerTypeOK'
         /\ RemoveCallsOK => RemoveCallsOK'
BY DEF UninstallerTypeOK, RemoveCallsOK, removeVars

LEMMA RemovalStays ==
  ASSUME UNCHANGED <<componentVars, resolved, removeVars>>
  PROVE  /\ RemovalInStep => RemovalInStep'
         /\ GoingInStep => GoingInStep'
<1>1. UNCHANGED <<unresolved, removeStack, removeResult, removeError>>
  BY DEF removeVars
<1>2. ASSUME RemovalInStep PROVE RemovalInStep'
  <2>1. /\ \A x \in Range(unresolved') : LocalDependents(x) \subseteq Range(unresolved') \cup Range(resolved)
        /\ \A i \in DOMAIN removeStack' : RemovalOK(i, removeStack', Range(unresolved'))
    BY <1>1, <1>2 DEF RemovalInStep, Scheduled
  <2> QED
    BY <2>1, RemovalPrime
<1>3. ASSUME GoingInStep PROVE GoingInStep'
  <2>1. CASE removeResult \in {"running", "solved"} /\ ~removeError
    <3> DEFINE going == Range(unresolved') \cup UNION {ToGo(f) : f \in Range(removeStack')}
    <3>1. going = Going /\ Range(unresolved') = Scheduled
      BY <1>1 DEF Going, Scheduled
    <3>2. \A c \in going : GoingReason(c, going, Range(unresolved'))
      BY <1>3, <2>1, <3>1 DEF GoingInStep
    <3> HIDE DEF going
    <3> QED
      BY <3>2, GoingPrime DEF going
  <2>2. CASE ~(removeResult \in {"running", "solved"} /\ ~removeError)
    BY <1>1, <2>2 DEF GoingInStep
  <2> QED
    BY <2>1, <2>2
<1> QED
  BY <1>2, <1>3

\* A calculation begins with nothing done.
LEMMA InstallerStarts ==
  ASSUME ComponentTypeOK', NEW T, T \subseteq Components, NEW order \in Orders(T),
         StartInstaller(order), \A c \in T : IsUpdateAvailable(c)' => UpdateRequested(c)'
  PROVE  /\ InstallerTypeOK' /\ InstallCallsOK' /\ ListsInStep'
         /\ AutomaticInStep' /\ DependenciesInStep' /\ ReasonsInStep'
<1>1. /\ order \in Seq(Components) /\ Range(order) = T /\ NoRepeat(order)
      /\ order = <<>> <=> T = {}
  BY OrderProperties
<1>2. /\ resolved' = <<>> /\ toInstall' = {} /\ toCheck' = {} /\ visited' = {}
      /\ \/ order = <<>> /\ installStack' = <<>> /\ installResult' = "solved"
         \/ order # <<>> /\ installStack' = <<Solve(order)>> /\ installResult' = "running"
  BY DEF StartInstaller
<1>3. /\ Solve(order) \in SolveFrames /\ Solve(order).call = "solve"
      /\ Solve(order).components = order /\ Solve(order).notAppended = <<>>
  BY <1>1, SolveType
<1>4. /\ installStack' \in Seq(SolveFrames \cup ComponentFrames)
      /\ \A i \in DOMAIN installStack' : i = 1 /\ installStack'[i] = Solve(order)
      /\ \A f \in Range(installStack') : f = Solve(order)
      /\ installStack' # <<>> <=> installResult' = "running"
      /\ Len(installStack') = 1 \/ installStack' = <<>>
  <2> DEFINE f == Solve(order)
  <2>1. f \in SolveFrames \cup ComponentFrames
    BY <1>3
  <2> HIDE DEF f
  <2>2. CASE installStack' = <<>>
    BY <1>2, <2>2 DEF Range
  <2>3. CASE installStack' = <<f>>
    <3>1. DOMAIN <<f>> = {1} /\ <<f>>[1] = f /\ Len(<<f>>) = 1 /\ <<f>> # <<>>
      OBVIOUS
    <3>2. <<f>> \in Seq(SolveFrames \cup ComponentFrames)
      BY <2>1
    <3>3. installResult' = "running"
      BY <1>2, <2>3
    <3> QED
      BY <2>3, <3>1, <3>2, <3>3 DEF Range, f
  <2> QED
    BY <1>2, <2>2, <2>3 DEF f
<1>5. Range(<<>>) = {} /\ NoRepeat(<<>>) /\ DOMAIN <<>> = {}
  BY DEF Range, NoRepeat
<1> HIDE DEF Solve
<1>6. InstallerTypeOK'
  BY <1>2, <1>4 DEF InstallerTypeOK, Results
<1>7. InstallCallsOK'
  <2>1. ASSUME NEW i \in DOMAIN installStack'
        PROVE  /\ installStack'[i].call = "solve" <=> i = Len(installStack')
               /\ ~(i > 1)
    BY <1>3, <1>4
  <2> QED
    BY <1>4, <2>1 DEF InstallCallsOK
<1>8. ListsInStep'
  <2>1. Range(resolved)' = toInstall' /\ NoRepeat(resolved)'
    BY <1>2, <1>5
  <2>2. ASSUME NEW i \in DOMAIN installStack'
        PROVE  NoRepeat(installStack'[i].components)
    BY <1>1, <1>3, <1>4
  <2> QED
    BY <1>2, <2>1, <2>2 DEF ListsInStep, NoRepeat
<1>9. AutomaticInStep'
  BY <1>2 DEF AutomaticInStep, AutomaticDue
<1>10. DependenciesInStep'
  <2>1. \A i \in DOMAIN installStack' : installStack'[i].call # "solveComponent"
    BY <1>3, <1>4
  <2> QED
    BY <1>2, <1>5, <2>1 DEF DependenciesInStep, OrderOK
<1>11. ReasonsInStep'
  <2>1. Wanted' = {}
    BY <1>2, <1>3, <1>4 DEF Wanted, Called, Range
  <2>2. \A f \in Range(installStack)' : \A c \in Of(f)' : c \in T
    BY <1>1, <1>3, <1>4, <1>5 DEF Of, Range
  <2> QED
    BY <1>2, <2>1, <2>2 DEF ReasonsInStep
<1> QED
  BY <1>6, <1>7, <1>8, <1>9, <1>10, <1>11

LEMMA Cleared ==
  /\ ClearInstaller => InstallerTypeOK' /\ InstallCallsOK' /\ ListsInStep'
  /\ ClearUninstaller => UninstallerTypeOK' /\ RemoveCallsOK'
  /\ InstallerInit => InstallerTypeOK /\ InstallCallsOK /\ ListsInStep
  /\ UninstallerInit => UninstallerTypeOK /\ RemoveCallsOK
<1>1. Range(<<>>) = {} /\ NoRepeat(<<>>) /\ DOMAIN <<>> = {} /\ (\A S : <<>> \in Seq(S))
  BY DEF Range, NoRepeat
<1>2. ASSUME ClearInstaller PROVE InstallerTypeOK' /\ InstallCallsOK' /\ ListsInStep'
  BY <1>1, <1>2 DEF ClearInstaller, InstallerTypeOK, InstallCallsOK, ListsInStep, Results
<1>3. ASSUME ClearUninstaller PROVE UninstallerTypeOK' /\ RemoveCallsOK'
  BY <1>1, <1>3 DEF ClearUninstaller, UninstallerTypeOK, RemoveCallsOK, Results
<1>4. ASSUME InstallerInit PROVE InstallerTypeOK /\ InstallCallsOK /\ ListsInStep
  BY <1>1, <1>4 DEF InstallerInit, InstallerTypeOK, InstallCallsOK, ListsInStep, Results
<1>5. ASSUME UninstallerInit PROVE UninstallerTypeOK /\ RemoveCallsOK
  BY <1>1, <1>5 DEF UninstallerInit, UninstallerTypeOK, RemoveCallsOK, Results
<1> QED
  BY <1>2, <1>3, <1>4, <1>5

-----------------------------------------------------------------------------
(* The sessions                                                            *)

\* The phases in which the list of components to install counts.
Planning == phase \in {"fetched", "calculating", "removing"}

\* What the program knows in its phases.
PhasesOK ==
  /\ installResult = "running" => phase \in {"fetched", "calculating"}
  /\ removeResult = "running" => phase = "removing"
  /\ phase \in {"fetched", "selecting", "calculating"} => removeResult = "none"
  /\ phase = "removing" => installResult = "solved" /\ mode # "Installer"
  /\ phase = "fetched" => mode # "Updater" /\ checked = Components
  /\ sessions = 0 => mode = "Installer"
  /\ phase # "closed" => installed = before
  /\ \A c \in Components : installed[c] <= available[c]
  /\ phase \in {"calculating", "removing"} /\ mode # "Updater" => product.forced \subseteq checked

PlansOK ==
  Planning =>
    /\ AutomaticInStep
    /\ Outdated(before) = {} => DependenciesInStep /\ ReasonsInStep

RemovalsOK ==
  phase = "removing" =>
    /\ RemovalInStep
    /\ Outdated(before) = {} => GoingInStep

SessionInv ==
  /\ ChangesTypeOK /\ PhasesOK
  /\ InstallCallsOK /\ ListsInStep /\ PlansOK
  /\ RemoveCallsOK /\ RemovalsOK

LEMMA SessionInit == Init => SessionInv
<1> SUFFICES ASSUME Init PROVE SessionInv
  OBVIOUS
<1>1. /\ InstallerTypeOK /\ InstallCallsOK /\ ListsInStep
      /\ UninstallerTypeOK /\ RemoveCallsOK
      /\ installResult = "none" /\ removeResult = "none"
  BY Cleared DEF Init, InstallerInit, UninstallerInit
<1>2. 0 \in 0..MaxVersion /\ 1 \in Versions
  BY ComponentAssumption DEF Versions
<1>3. ComponentTypeOK
  BY <1>2, ComponentAssumption DEF Init, ComponentTypeOK, Modes, Nothing
<1>4. ChangesTypeOK
  <2>1. phase \in Phases /\ before \in [Components -> 0..MaxVersion]
    BY <1>2 DEF Init, Phases, Nothing
  <2>2. sessions \in 0..MaxSessions
    BY SessionsAssumption DEF Init
  <2> QED
    BY <1>1, <1>3, <2>1, <2>2 DEF ChangesTypeOK
<1>5. PhasesOK
  BY <1>1 DEF Init, PhasesOK, Nothing
<1>6. PlansOK /\ RemovalsOK
  BY DEF PlansOK, RemovalsOK, Planning, Init
<1> QED
  BY <1>1, <1>4, <1>5, <1>6 DEF SessionInv

\* The tree is built from nothing.
LEMMA TreeStarts ==
  ASSUME ComponentTypeOK', mode' # "Updater", BuildComponentTree
  PROVE  /\ InstallerTypeOK' /\ InstallCallsOK' /\ ListsInStep'
         /\ AutomaticInStep' /\ DependenciesInStep' /\ ReasonsInStep'
         /\ UninstallerTypeOK' /\ RemoveCallsOK' /\ removeResult' = "none"
         /\ phase' = "fetched" /\ checked' = Components
<1>1. /\ phase' = "fetched" /\ checked' = Components /\ ClearUninstaller
      /\ \E order \in Orders(Components) : StartInstaller(order)
  BY DEF BuildComponentTree
<1>2. PICK order \in Orders(Components) : StartInstaller(order)
  BY <1>1
<1>3. \A c \in Components : ~IsUpdateAvailable(c)'
  BY DEF IsUpdateAvailable
<1>4. /\ InstallerTypeOK' /\ InstallCallsOK' /\ ListsInStep'
      /\ AutomaticInStep' /\ DependenciesInStep' /\ ReasonsInStep'
  BY <1>2, <1>3, InstallerStarts
<1>5. UninstallerTypeOK' /\ RemoveCallsOK' /\ removeResult' = "none"
  BY <1>1, Cleared DEF ClearUninstaller
<1> QED
  BY <1>1, <1>4, <1>5

\* One session after another.
LEMMA OpenedType ==
  ASSUME ChangesTypeOK, PhasesOK, Opened
  PROVE  /\ product' \in ProductType /\ installed' \in [Components -> 0..MaxVersion]
         /\ before' \in [Components -> 0..MaxVersion] /\ before' = installed'
         /\ sessions' \in 0..MaxSessions
         /\ \A a \in NewReleases : /\ a \in [Components -> Versions]
                                   /\ \A c \in Components : installed'[c] <= a[c]
<1>1. /\ product' \in ProductType /\ installed' \in [Components -> 0..MaxVersion]
      /\ before' \in [Components -> 0..MaxVersion] /\ before' = installed'
  BY DEF Opened, ChangesTypeOK, ComponentTypeOK
<1>2. sessions' \in 0..MaxSessions
  BY SessionsAssumption DEF Opened, ChangesTypeOK
<1>3. ASSUME NEW a \in NewReleases, NEW c \in Components PROVE installed'[c] <= a[c]
  <2>1. a[c] >= available[c] /\ installed[c] <= available[c]
    BY <1>3 DEF NewReleases, PhasesOK
  <2>2. a[c] \in Nat /\ available[c] \in Nat /\ installed[c] \in Nat
    BY <1>3, ComponentAssumption DEF NewReleases, ChangesTypeOK, ComponentTypeOK, Versions
  <2> QED
    BY <2>1, <2>2 DEF Opened
<1> QED
  BY <1>1, <1>2, <1>3 DEF NewReleases

LEMMA TreeOpens ==
  ASSUME SessionInv, Opened, BuildComponentTree,
         mode' \in {"Installer", "PackageManager"}, available' \in [Components -> Versions],
         \A c \in Components : installed'[c] <= available'[c]
  PROVE  SessionInv'
<1>1. ChangesTypeOK /\ PhasesOK
  BY DEF SessionInv
<1>2. /\ product' \in ProductType /\ installed' \in [Components -> 0..MaxVersion]
      /\ before' \in [Components -> 0..MaxVersion] /\ before' = installed'
      /\ sessions' \in 0..MaxSessions
  BY <1>1, OpenedType
<1>3. ComponentTypeOK'
  BY <1>2 DEF ComponentTypeOK, Modes, BuildComponentTree
<1>4. /\ InstallerTypeOK' /\ InstallCallsOK' /\ ListsInStep'
      /\ AutomaticInStep' /\ DependenciesInStep' /\ ReasonsInStep'
      /\ UninstallerTypeOK' /\ RemoveCallsOK' /\ removeResult' = "none"
      /\ phase' = "fetched" /\ checked' = Components
  BY <1>3, TreeStarts
<1>5. ChangesTypeOK'
  BY <1>2, <1>3, <1>4 DEF ChangesTypeOK, Phases
<1>6. sessions' # 0
  BY <1>1, SessionsAssumption DEF Opened, ChangesTypeOK
<1>7. PhasesOK'
  BY <1>2, <1>4, <1>6 DEF PhasesOK
<1>8. PlansOK' /\ RemovalsOK'
  BY <1>4 DEF PlansOK, RemovalsOK
<1> QED
  BY <1>4, <1>5, <1>7, <1>8 DEF SessionInv

LEMMA OpenInstallerKeeps ==
  ASSUME SessionInv, OpenInstaller
  PROVE  SessionInv'
<1>1. /\ Opened /\ BuildComponentTree /\ sessions = 0 /\ UNCHANGED <<mode, available>>
      /\ UNCHANGED installed
  BY DEF OpenInstaller, Opened
<1>2. ChangesTypeOK /\ PhasesOK
  BY DEF SessionInv
<1>3. /\ mode' \in {"Installer", "PackageManager"} /\ available' \in [Components -> Versions]
      /\ \A c \in Components : installed'[c] <= available'[c]
  BY <1>1, <1>2 DEF PhasesOK, ChangesTypeOK, ComponentTypeOK
<1> QED
  BY <1>1, <1>3, TreeOpens

LEMMA OpenPackageManagerKeeps ==
  ASSUME SessionInv, OpenPackageManager
  PROVE  SessionInv'
<1>1. /\ Opened /\ BuildComponentTree /\ mode' = "PackageManager" /\ available' \in NewReleases
  BY DEF OpenPackageManager
<1>2. ChangesTypeOK /\ PhasesOK
  BY DEF SessionInv
<1>3. /\ available' \in [Components -> Versions]
      /\ \A c \in Components : installed'[c] <= available'[c]
  BY <1>1, <1>2, OpenedType
<1> QED
  BY <1>1, <1>3, TreeOpens

LEMMA OpenUpdaterKeeps ==
  ASSUME SessionInv, OpenUpdater
  PROVE  SessionInv'
<1>1. /\ Opened /\ mode' = "Updater" /\ available' \in NewReleases /\ phase' = "selecting"
      /\ ClearInstaller /\ ClearUninstaller /\ UNCHANGED checked
  BY DEF OpenUpdater
<1>2. ChangesTypeOK /\ PhasesOK
  BY DEF SessionInv
<1>3. /\ product' \in ProductType /\ installed' \in [Components -> 0..MaxVersion]
      /\ before' \in [Components -> 0..MaxVersion] /\ before' = installed'
      /\ sessions' \in 0..MaxSessions
      /\ available' \in [Components -> Versions]
      /\ \A c \in Components : installed'[c] <= available'[c]
  BY <1>1, <1>2, OpenedType
<1>4. /\ InstallerTypeOK' /\ InstallCallsOK' /\ ListsInStep'
      /\ UninstallerTypeOK' /\ RemoveCallsOK'
  BY <1>1, Cleared
<1>5. ChangesTypeOK'
  BY <1>1, <1>2, <1>3, <1>4 DEF ChangesTypeOK, ComponentTypeOK, Phases, Modes
<1>6. sessions' # 0
  BY <1>1, <1>2, SessionsAssumption DEF Opened, ChangesTypeOK
<1>7. PhasesOK'
  BY <1>1, <1>3, <1>6 DEF PhasesOK, ClearInstaller, ClearUninstaller
<1>8. PlansOK' /\ RemovalsOK'
  BY <1>1 DEF PlansOK, RemovalsOK, Planning
<1> QED
  BY <1>4, <1>5, <1>7, <1>8 DEF SessionInv

\* Nothing about the product changes within a session.
LEMMA NothingOutdated ==
  ASSUME UNCHANGED <<product, before>>
  PROVE  (Outdated(before))' = Outdated(before)
BY DEF Outdated, Missing, VersionMatches

\* The calculators stand still.
LEMMA PlansUnchanged ==
  ASSUME SessionInv, UNCHANGED <<componentVars, installVars, before>>, Planning
  PROVE  PlansOK'
<1>1. ComponentTypeOK /\ UNCHANGED product
  BY DEF SessionInv, ChangesTypeOK, componentVars
<1>2. /\ AutomaticInStep
      /\ Outdated(before) = {} => DependenciesInStep /\ ReasonsInStep
  BY DEF SessionInv, PlansOK
<1>3. AutomaticInStep'
  BY <1>2, AutomaticStays
<1>4. (Outdated(before))' = {} => DependenciesInStep' /\ ReasonsInStep'
  BY <1>1, <1>2, PlansStay, NothingOutdated
<1> QED
  BY <1>3, <1>4 DEF PlansOK

\* A session that ends without a change.
LEMMA TreeFailedKeeps ==
  ASSUME SessionInv, TreeFailed \/ CalculationFailed
  PROVE  SessionInv'
<1>1. /\ phase' = "closed" /\ UNCHANGED <<componentVars, installVars, removeVars, before, sessions>>
      /\ "failed" \in {installResult, removeResult}
      /\ phase \in {"fetched", "calculating", "removing"}
  BY DEF TreeFailed, CalculationFailed
<1>2. /\ InstallerTypeOK' /\ InstallCallsOK' /\ ListsInStep'
      /\ UninstallerTypeOK' /\ RemoveCallsOK'
  BY <1>1, InstallerStays, UninstallerStays DEF SessionInv, ChangesTypeOK
<1>3. ChangesTypeOK'
  BY <1>1, <1>2 DEF SessionInv, ChangesTypeOK, ComponentTypeOK, componentVars, Phases
<1>4. PhasesOK'
  BY <1>1 DEF SessionInv, PhasesOK, componentVars, installVars, removeVars
<1>5. PlansOK' /\ RemovalsOK'
  BY <1>1 DEF PlansOK, RemovalsOK, Planning
<1> QED
  BY <1>2, <1>3, <1>4, <1>5 DEF SessionInv

LEMMA OverflowKeeps ==
  ASSUME SessionInv, Overflow
  PROVE  SessionInv'
<1>1. /\ phase' = "crashed" /\ UNCHANGED <<componentVars, installVars, removeVars, before, sessions>>
      /\ phase = "removing" /\ removeResult = "overflow"
  BY DEF Overflow
<1>2. /\ InstallerTypeOK' /\ InstallCallsOK' /\ ListsInStep'
      /\ UninstallerTypeOK' /\ RemoveCallsOK'
  BY <1>1, InstallerStays, UninstallerStays DEF SessionInv, ChangesTypeOK
<1>3. ChangesTypeOK'
  BY <1>1, <1>2 DEF SessionInv, ChangesTypeOK, ComponentTypeOK, componentVars, Phases
<1>4. PhasesOK'
  BY <1>1 DEF SessionInv, PhasesOK, componentVars, installVars, removeVars
<1>5. PlansOK' /\ RemovalsOK'
  BY <1>1 DEF PlansOK, RemovalsOK, Planning
<1> QED
  BY <1>2, <1>3, <1>4, <1>5 DEF SessionInv

LEMMA TreeBuiltKeeps ==
  ASSUME SessionInv, TreeBuilt
  PROVE  SessionInv'
<1>1. /\ phase' = "selecting" /\ UNCHANGED <<componentVars, removeVars, before, sessions>>
      /\ phase = "fetched" /\ ClearInstaller
  BY DEF TreeBuilt
<1>2. /\ InstallerTypeOK' /\ InstallCallsOK' /\ ListsInStep'
      /\ UninstallerTypeOK' /\ RemoveCallsOK'
  BY <1>1, Cleared, UninstallerStays DEF SessionInv, ChangesTypeOK
<1>3. ChangesTypeOK'
  BY <1>1, <1>2 DEF SessionInv, ChangesTypeOK, ComponentTypeOK, componentVars, Phases
<1>4. PhasesOK'
  BY <1>1 DEF SessionInv, PhasesOK, componentVars, ClearInstaller, removeVars
<1>5. PlansOK' /\ RemovalsOK'
  BY <1>1 DEF PlansOK, RemovalsOK, Planning
<1> QED
  BY <1>2, <1>3, <1>4, <1>5 DEF SessionInv

\* recalculateAllComponents() marks what is checked or has its update asked for.
LEMMA CalculateComponentsToInstallKeeps ==
  ASSUME SessionInv, CalculateComponentsToInstall
  PROVE  SessionInv'
<1> DEFINE T == MarkedForInstallation'
<1>1. PICK selection \in SUBSET Selectable : checked' = selection \cup (Preselected \ Selectable)
  BY DEF CalculateComponentsToInstall
<1>2. PICK order \in Orders(T) : StartInstaller(order)
  BY DEF CalculateComponentsToInstall
<1>3. /\ phase = "selecting" /\ phase' = "calculating" /\ ClearUninstaller
      /\ UNCHANGED <<product, mode, available, installed, before, sessions>>
  BY DEF CalculateComponentsToInstall
<1>4. ChangesTypeOK /\ ComponentTypeOK /\ PhasesOK
  BY DEF SessionInv, ChangesTypeOK
<1>5. checked' \subseteq Components
  BY <1>1, <1>4 DEF Selectable, Preselected, ComponentTypeOK, ProductType, InstalledSet
<1>6. ComponentTypeOK'
  BY <1>3, <1>4, <1>5 DEF ComponentTypeOK
<1>7. mode' # "Updater" => product'.forced \subseteq checked'
  BY <1>1, <1>3 DEF Selectable, Preselected
<1>8. T \subseteq Components /\ \A c \in T : IsUpdateAvailable(c)' => UpdateRequested(c)'
  BY DEF T, MarkedForInstallation, IsUpdateAvailable, UpdateRequested
<1> HIDE DEF T
<1>9. /\ InstallerTypeOK' /\ InstallCallsOK' /\ ListsInStep'
      /\ AutomaticInStep' /\ DependenciesInStep' /\ ReasonsInStep'
  BY <1>2, <1>6, <1>8, InstallerStarts
<1>10. UninstallerTypeOK' /\ RemoveCallsOK' /\ removeResult' = "none"
  BY <1>3, Cleared DEF ClearUninstaller
<1>11. ChangesTypeOK'
  BY <1>3, <1>4, <1>6, <1>9, <1>10 DEF ChangesTypeOK, Phases
<1>12. PhasesOK'
  BY <1>3, <1>4, <1>7, <1>10 DEF PhasesOK
<1>13. PlansOK' /\ RemovalsOK'
  BY <1>3, <1>9 DEF PlansOK, RemovalsOK
<1> QED
  BY <1>9, <1>10, <1>11, <1>12, <1>13 DEF SessionInv

\* A pass of the installer calculator.
LEMMA SolvingKeeps ==
  ASSUME SessionInv, Solving
  PROVE  SessionInv'
<1>1. /\ InstallerNext /\ installResult = "running"
      /\ UNCHANGED <<componentVars, removeVars>> /\ UNCHANGED <<phase, before, sessions>>
  BY DEF Solving, changeVars
<1>2. /\ ChangesTypeOK /\ ComponentTypeOK /\ InstallerTypeOK /\ UninstallerTypeOK
      /\ PhasesOK /\ InstallCallsOK /\ ListsInStep /\ RemoveCallsOK
  BY DEF SessionInv, ChangesTypeOK
<1>3. /\ phase \in {"fetched", "calculating"} /\ installed = before
      /\ UNCHANGED product
  BY <1>1, <1>2 DEF PhasesOK, componentVars
<1>4. /\ AutomaticInStep
      /\ Outdated(installed) = {} => DependenciesInStep /\ ReasonsInStep
  BY <1>3 DEF SessionInv, PlansOK, Planning
<1>5. InstallerTypeOK' /\ InstallCallsOK' /\ ListsInStep' /\ AutomaticInStep'
  BY <1>1, <1>2, <1>4, InstallerTypes, InstallCallsKept, ListsKept, AutomaticKept
<1>6. Outdated(installed) = {} => DependenciesInStep' /\ ReasonsInStep'
  BY <1>1, <1>2, <1>4, DependenciesStay, ReasonsKept
<1>7. UninstallerTypeOK' /\ RemoveCallsOK'
  BY <1>1, <1>2, UninstallerStays
<1>8. ChangesTypeOK'
  BY <1>1, <1>2, <1>5, <1>7 DEF ChangesTypeOK, ComponentTypeOK, componentVars
<1>9. PhasesOK'
  BY <1>1, <1>2, <1>3 DEF PhasesOK, componentVars, removeVars
<1>10. PlansOK'
  <2>1. (Outdated(before))' = Outdated(installed)
    BY <1>1, <1>3, NothingOutdated
  <2> QED
    BY <1>5, <1>6, <2>1 DEF PlansOK
<1>11. RemovalsOK'
  BY <1>1, <1>3 DEF RemovalsOK
<1> QED
  BY <1>5, <1>7, <1>8, <1>9, <1>10, <1>11 DEF SessionInv

\* The removal starts with what was unchecked, and nothing forced is.
LEMMA CalculateComponentsToUninstallKeeps ==
  ASSUME SessionInv, CalculateComponentsToUninstall
  PROVE  SessionInv'
<1> DEFINE T == {c \in Components : UninstallationRequested(c)} \ Range(resolved)
<1>1. PICK order \in Orders(T) : StartUninstaller(order)
  BY DEF CalculateComponentsToUninstall
<1>2. /\ phase = "calculating" /\ installResult = "solved" /\ mode # "Installer"
      /\ phase' = "removing" /\ UNCHANGED <<componentVars, installVars, before, sessions>>
  BY DEF CalculateComponentsToUninstall
<1>3. T \subseteq Components
  BY DEF T
<1>4. /\ ChangesTypeOK /\ ComponentTypeOK /\ InstallerTypeOK /\ PhasesOK
      /\ InstallCallsOK /\ ListsInStep
  BY DEF SessionInv, ChangesTypeOK
<1>5. \A c \in T : c \notin product.forced /\ UninstallationRequested(c)
  BY <1>2, <1>4 DEF T, UninstallationRequested, PhasesOK
<1> HIDE DEF T
<1>6. order \in Seq(Components) /\ Range(order) = T
  BY <1>1, <1>3, OrderProperties
<1> DEFINE f == SolveRemoval(order, FALSE)
<1>7. /\ f \in RemoveFrames \cup DependentFrames /\ f.call = "solve" /\ f.all = T
      /\ Remains(f) = T /\ Goal(f) = T /\ ToGo(f) = T
  BY <1>3, <1>6 DEF SolveRemoval, RemoveFrames, Remains, Goal, ToGo
<1>8. /\ unresolved' = <<>> /\ removeError' = FALSE /\ removeStack' = <<f>>
      /\ removeResult' = "running"
  BY <1>1 DEF StartUninstaller
<1> HIDE DEF f
<1>9. /\ <<f>> \in Seq(RemoveFrames \cup DependentFrames) /\ <<f>> # <<>> /\ Len(<<f>>) = 1
      /\ DOMAIN <<f>> = {1} /\ <<f>>[1] = f
  BY <1>7
<1>10. Range(<<>>) = {} /\ Range(<<f>>) = {f} /\ <<>> \in Seq(Components)
  BY <1>9 DEF Range
<1>11. UninstallerTypeOK' /\ RemoveCallsOK'
  BY <1>7, <1>8, <1>9, <1>10 DEF UninstallerTypeOK, RemoveCallsOK, Results
<1>12. RemovalInStep'
  <2>1. UNCHANGED <<componentVars, resolved>>
    BY <1>2 DEF installVars
  <2>2. ASSUME NEW i \in DOMAIN removeStack'
        PROVE  RemovalOK(i, removeStack', Range(unresolved'))
    BY <1>7, <1>8, <1>9, <1>10 DEF RemovalOK
  <2> QED
    BY <1>8, <1>10, <2>1, <2>2, RemovalPrime
<1>13. GoingInStep'
  <2>1. UNCHANGED componentVars
    BY <1>2
  <2>2. T = Range(unresolved') \cup UNION {ToGo(g) : g \in Range(removeStack')}
    BY <1>7, <1>8, <1>10
  <2>3. \A c \in T : GoingReason(c, T, Range(unresolved'))
    BY <1>5 DEF GoingReason
  <2> QED
    BY <2>1, <2>2, <2>3, GoingPrime
<1>14. InstallerTypeOK' /\ InstallCallsOK' /\ ListsInStep'
  BY <1>2, <1>4, InstallerStays
<1>15. ChangesTypeOK'
  BY <1>2, <1>4, <1>11, <1>14 DEF ChangesTypeOK, ComponentTypeOK, componentVars, Phases
<1>16. PhasesOK'
  BY <1>2, <1>4, <1>8 DEF PhasesOK, componentVars, installVars
<1>17. PlansOK'
  BY <1>2, PlansUnchanged DEF Planning
<1>18. RemovalsOK'
  BY <1>12, <1>13 DEF RemovalsOK
<1> QED
  BY <1>11, <1>14, <1>15, <1>16, <1>17, <1>18 DEF SessionInv

\* A pass of the uninstaller calculator.
LEMMA RemovingKeeps ==
  ASSUME SessionInv, Removing
  PROVE  SessionInv'
<1>1. /\ UninstallerNext /\ removeResult = "running"
      /\ UNCHANGED <<componentVars, installVars, phase, before, sessions>>
  BY DEF Removing, changeVars
<1>2. /\ ChangesTypeOK /\ ComponentTypeOK /\ InstallerTypeOK /\ UninstallerTypeOK
      /\ PhasesOK /\ InstallCallsOK /\ ListsInStep /\ RemoveCallsOK
  BY DEF SessionInv, ChangesTypeOK
<1>3. /\ phase = "removing" /\ installed = before /\ UNCHANGED product
      /\ \A d \in Components : installed[d] <= available[d]
  BY <1>1, <1>2 DEF PhasesOK, componentVars
<1>4. RemovalInStep /\ (Outdated(installed) = {} => GoingInStep)
  BY <1>3 DEF SessionInv, RemovalsOK
<1>5. UNCHANGED <<componentVars, resolved>> /\ UNCHANGED componentVars
  BY <1>1 DEF installVars
<1>6. UninstallerTypeOK' /\ RemoveCallsOK' /\ RemovalInStep'
  BY <1>1, <1>2, <1>4, <1>5, UninstallerTypes, RemovalKept
<1>7. Outdated(installed) = {} => GoingInStep'
  BY <1>1, <1>2, <1>3, <1>4, <1>5, GoingKept
<1>8. InstallerTypeOK' /\ InstallCallsOK' /\ ListsInStep'
  BY <1>1, <1>2, InstallerStays
<1>9. ChangesTypeOK'
  BY <1>1, <1>2, <1>6, <1>8 DEF ChangesTypeOK, ComponentTypeOK, componentVars
<1>10. PhasesOK'
  BY <1>1, <1>2, <1>3 DEF PhasesOK, componentVars, installVars
<1>11. PlansOK'
  BY <1>1, <1>3, PlansUnchanged DEF Planning
<1>12. RemovalsOK'
  <2>1. (Outdated(before))' = Outdated(installed)
    BY <1>1, <1>3, NothingOutdated
  <2> QED
    BY <1>6, <1>7, <2>1 DEF RemovalsOK
<1> QED
  BY <1>6, <1>8, <1>9, <1>10, <1>11, <1>12 DEF SessionInv

\* What is carried out is in a version the repository has.
LEMMA CarryOutKeeps ==
  ASSUME SessionInv, CarryOut
  PROVE  SessionInv'
<1>1. /\ installed' = Changed /\ phase' = "closed"
      /\ UNCHANGED <<product, mode, available, checked, installVars, removeVars, before, sessions>>
      /\ installResult # "running" /\ removeResult # "running"
  <2>1. CASE phase = "calculating" /\ installResult = "solved" /\ mode = "Installer"
    BY <2>1 DEF CarryOut, SessionInv, PhasesOK
  <2>2. CASE phase = "removing" /\ removeResult = "solved"
    BY <2>2 DEF CarryOut, SessionInv, PhasesOK
  <2> QED
    BY <2>1, <2>2 DEF CarryOut
<1>2. /\ ChangesTypeOK /\ ComponentTypeOK /\ InstallerTypeOK /\ UninstallerTypeOK
      /\ PhasesOK /\ InstallCallsOK /\ ListsInStep /\ RemoveCallsOK
  BY DEF SessionInv, ChangesTypeOK
<1>3. ASSUME NEW c \in Components
      PROVE  Changed[c] \in 0..MaxVersion /\ Changed[c] <= available[c]
  <2>1. /\ available[c] \in 0..MaxVersion /\ installed[c] \in 0..MaxVersion
        /\ 0 \in 0..MaxVersion
    BY <1>2, ComponentAssumption DEF ComponentTypeOK, Versions
  <2>2. installed[c] <= available[c] /\ 0 <= available[c] /\ available[c] <= available[c]
    BY <1>2, <2>1 DEF PhasesOK
  <2> QED
    BY <2>1, <2>2 DEF Changed
<1>4. Changed \in [Components -> 0..MaxVersion]
  BY <1>3 DEF Changed
<1>5. ComponentTypeOK'
  BY <1>1, <1>2, <1>4 DEF ComponentTypeOK
<1>6. /\ InstallerTypeOK' /\ InstallCallsOK' /\ ListsInStep'
      /\ UninstallerTypeOK' /\ RemoveCallsOK'
  BY <1>1, <1>2, InstallerStays, UninstallerStays
<1>7. ChangesTypeOK'
  BY <1>1, <1>2, <1>5, <1>6 DEF ChangesTypeOK, Phases
<1>8. PhasesOK'
  BY <1>1, <1>2, <1>3 DEF PhasesOK, installVars, removeVars
<1>9. PlansOK' /\ RemovalsOK'
  BY <1>1 DEF PlansOK, RemovalsOK, Planning
<1> QED
  BY <1>6, <1>7, <1>8, <1>9 DEF SessionInv

LEMMA StutterKeeps ==
  ASSUME SessionInv, UNCHANGED vars
  PROVE  SessionInv'
<1>1. /\ UNCHANGED <<componentVars, installVars, removeVars>>
      /\ UNCHANGED <<componentVars, resolved, removeVars>>
      /\ UNCHANGED <<phase, before, sessions, product>>
  BY DEF vars, changeVars, installVars, componentVars
<1>2. /\ InstallerTypeOK' /\ InstallCallsOK' /\ ListsInStep'
      /\ UninstallerTypeOK' /\ RemoveCallsOK'
  BY <1>1, InstallerStays, UninstallerStays DEF SessionInv, ChangesTypeOK
<1>3. ChangesTypeOK'
  BY <1>1, <1>2 DEF SessionInv, ChangesTypeOK, ComponentTypeOK, componentVars
<1>4. PhasesOK'
  BY <1>1 DEF SessionInv, PhasesOK, componentVars, installVars, removeVars
<1>5. PlansOK'
  <2>1. CASE Planning
    BY <1>1, <2>1, PlansUnchanged
  <2>2. CASE ~Planning
    BY <1>1, <2>2 DEF Planning, PlansOK
  <2> QED
    BY <2>1, <2>2
<1>6. RemovalsOK'
  BY <1>1, RemovalStays, NothingOutdated DEF SessionInv, RemovalsOK
<1> QED
  BY <1>2, <1>3, <1>4, <1>5, <1>6 DEF SessionInv

\* The invariant of the sessions holds throughout.
LEMMA SessionStep ==
  ASSUME SessionInv, [Next]_vars
  PROVE  SessionInv'
BY OpenInstallerKeeps, OpenPackageManagerKeeps, OpenUpdaterKeeps, TreeFailedKeeps, TreeBuiltKeeps,
   CalculateComponentsToInstallKeeps, SolvingKeeps, CalculateComponentsToUninstallKeeps,
   RemovingKeeps, OverflowKeeps, CarryOutKeeps, StutterKeeps DEF Next, Done

LEMMA SessionsOK == Spec => []SessionInv
<1>1. Init => SessionInv
  BY SessionInit
<1>2. SessionInv /\ [Next]_vars => SessionInv'
  BY SessionStep
<1> QED
  BY <1>1, <1>2, PTL DEF Spec

-----------------------------------------------------------------------------
(* What the calculations promise                                           *)

\* Every session keeps to the types, and what is installed is never newer than
\* what the repository offers.
THEOREM ChangesTypeCorrect == Spec => []ChangesTypeOK
<1>1. SessionInv => ChangesTypeOK
  BY DEF SessionInv
<1> QED
  BY <1>1, SessionsOK, PTL

LEMMA ListInOrder == SessionInv => ResolvedWithDependencies
<1> SUFFICES ASSUME SessionInv, phase \in {"calculating", "removing"},
                    NEW i \in DOMAIN resolved
             PROVE  /\ \A j \in 1..(i - 1) : resolved[j] # resolved[i]
                    /\ Outdated(before) = {}
                         /\ (installed[resolved[i]] = 0 \/ UpdateRequested(resolved[i])) =>
                         \A r \in Range(Dependencies(resolved[i])) :
                           \/ \E j \in 1..(i - 1) : resolved[j] = r.name
                           \/ installed[r.name] # 0 /\ VersionMatches(installed[r.name], r)
  BY DEF ResolvedWithDependencies
<1>1. /\ resolved \in Seq(Components) /\ NoRepeat(resolved)
      /\ Outdated(before) = {} => OrderOK(resolved)
  BY DEF SessionInv, ChangesTypeOK, InstallerTypeOK, ListsInStep, PlansOK, Planning,
         DependenciesInStep
<1>2. \A j \in 1..(i - 1) : resolved[j] # resolved[i]
  <2> SUFFICES ASSUME NEW j \in 1..(i - 1) PROVE resolved[j] # resolved[i]
    OBVIOUS
  <2>1. DOMAIN resolved = 1 .. Len(resolved) /\ Len(resolved) \in Nat
    BY <1>1, RangeType
  <2>2. j \in DOMAIN resolved /\ j # i
    BY <2>1
  <2> QED
    BY <1>1, <2>2 DEF NoRepeat
<1>3. ASSUME Outdated(before) = {}, installed[resolved[i]] = 0 \/ UpdateRequested(resolved[i]),
             NEW r \in Range(Dependencies(resolved[i]))
      PROVE  \/ \E j \in 1..(i - 1) : resolved[j] = r.name
             \/ installed[r.name] # 0 /\ VersionMatches(installed[r.name], r)
  <2>1. CurrentDependencies(resolved[i]) = Dependencies(resolved[i])
    BY <1>3 DEF CurrentDependencies
  <2> QED
    BY <1>1, <1>3, <2>1 DEF OrderOK, InstalledMeets
<1> QED
  BY <1>2, <1>3

\* The list of components to install has each of them once and, if nothing was
\* outdated, after everything it needs (solveComponent() of the installer
\* calculator), whatever the products ask for and the user selects.
THEOREM ListsInOrder == Spec => []ResolvedWithDependencies
  BY SessionsOK, ListInOrder, PTL

\* What the calculators leave when they are done.
LEMMA WhenSolved ==
  ASSUME SessionInv, installResult = "solved", Planning, Outdated(before) = {}
  PROVE  /\ \A c \in toInstall \cap InstalledSet : Reason(c, toInstall, toInstall)
         /\ Range(resolved) = toInstall /\ toInstall \subseteq Components
         /\ phase = "removing" /\ removeResult = "solved" =>
              /\ \A x \in Scheduled : LocalDependents(x) \subseteq Scheduled \cup Range(resolved)
              /\ ~removeError => \A c \in Scheduled : GoingReason(c, Scheduled, Scheduled)
<1>1. /\ InstallCallsOK /\ ReasonsInStep /\ ListsInStep /\ RemoveCallsOK /\ RemovalsOK
      /\ toInstall \subseteq Components
  BY DEF SessionInv, PlansOK, ChangesTypeOK, InstallerTypeOK
<1>2. installStack = <<>>
  BY <1>1 DEF InstallCallsOK
<1>3. Range(<<>>) = {}
  BY DEF Range
<1>4. Wanted = toInstall
  BY <1>2, <1>3 DEF Wanted, Called
<1>5. ASSUME phase = "removing", removeResult = "solved"
      PROVE  /\ \A x \in Scheduled : LocalDependents(x) \subseteq Scheduled \cup Range(resolved)
             /\ ~removeError => \A c \in Scheduled : GoingReason(c, Scheduled, Scheduled)
  <2>1. removeStack = <<>> /\ RemovalInStep /\ GoingInStep
    BY <1>1, <1>5 DEF RemoveCallsOK, RemovalsOK
  <2>2. Going = Scheduled
    BY <2>1, <1>3 DEF Going
  <2> QED
    BY <1>5, <2>1, <2>2 DEF RemovalInStep, GoingInStep
<1> QED
  BY <1>1, <1>4, <1>5 DEF ReasonsInStep, ListsInStep

\* What is in the list gets a version of the repository.
LEMMA ChangedTo ==
  ASSUME ComponentTypeOK, NEW c \in Components
  PROVE  /\ c \in Range(resolved) => Changed[c] = available[c] /\ Changed[c] # 0
         /\ c \notin Range(resolved) /\ c \in Removed => Changed[c] = 0
         /\ c \notin Range(resolved) /\ c \notin Removed => Changed[c] = installed[c]
         /\ available[c] \in Nat /\ installed[c] \in Nat
<1>1. available[c] \in Nat /\ available[c] # 0 /\ installed[c] \in Nat
  BY ComponentAssumption DEF ComponentTypeOK, Versions
<1> QED
  BY <1>1 DEF Changed

LEMMA ReasonsGiven == SessionInv => ChangedForReason
<1> SUFFICES ASSUME SessionInv, phase = "removing", removeResult = "solved", Outdated(before) = {}
             PROVE  /\ \A c \in Range(resolved) \cap InstalledSet : ReasonToReplace(c)
                    /\ ~removeError => \A c \in Scheduled : ReasonToRemove(c)
  BY DEF ChangedForReason
<1>1. ComponentTypeOK /\ installResult = "solved" /\ Planning
  BY DEF SessionInv, ChangesTypeOK, PhasesOK, Planning
<1>2. /\ \A c \in toInstall \cap InstalledSet : Reason(c, toInstall, toInstall)
      /\ Range(resolved) = toInstall /\ toInstall \subseteq Components
      /\ ~removeError => \A c \in Scheduled : GoingReason(c, Scheduled, Scheduled)
  BY <1>1, WhenSolved
<1>3. ASSUME NEW c \in Range(resolved) \cap InstalledSet PROVE ReasonToReplace(c)
  <2>1. Reason(c, toInstall, toInstall)
    BY <1>2
  <2>2. CASE Required(c, toInstall)
    <3>1. PICK d \in toInstall, r \in Requirements :
            r.name = c /\ IsUpdateRequired(r) /\ r \in Range(CurrentDependencies(d))
      BY <2>2 DEF Required
    <3>2. d \in Components /\ Changed[d] # 0
      BY <1>1, <1>2, <3>1, ChangedTo
    <3> QED
      BY <3>1, <3>2 DEF ReasonToReplace
  <2> QED
    BY <2>1, <2>2 DEF Reason, FollowsUpdate, ReasonToReplace
<1>4. ASSUME ~removeError, NEW c \in Scheduled PROVE ReasonToRemove(c)
  BY <1>2, <1>4 DEF GoingReason, ReasonToRemove
<1> QED
  BY <1>3, <1>4

\* If nothing was outdated, every installed component that is replaced and every
\* one that is removed has a reason for it, through all the calls of both
\* calculators.
THEOREM ChangesHaveReasons == Spec => []ChangedForReason
  BY SessionsOK, ReasonsGiven, PTL

-----------------------------------------------------------------------------
(* What a session does to the dependencies                                 *)

\* A session that changes nothing leaves nothing open.
LEMMA NothingChanged ==
  ASSUME installed = before
  PROVE  RequirementsKept /\ AutomaticInstalled
BY DEF RequirementsKept, AutomaticInstalled, InstalledSet

\* A requirement of a component that is installed or updated is left open only
\* if what met it is removed.
LEMMA NewRequirement ==
  ASSUME SessionInv, installResult = "solved", Planning, Outdated(before) = {},
         NEW c \in Range(resolved), installed[c] = 0 \/ UpdateRequested(c),
         NEW r \in Range(Dependencies(c)), r \in Requirements,
         ~(Changed[r.name] # 0 /\ VersionMatches(Changed[r.name], r))
  PROVE  installed[r.name] # 0 /\ Changed[r.name] = 0 /\ installed[c] = 0
<1>1. /\ ComponentTypeOK /\ OrderOK(resolved) /\ r.name \in Components /\ r.version \in Nat
      /\ resolved \in Seq(Components) /\ \A d \in Components : installed[d] <= available[d]
  BY ComponentAssumption DEF SessionInv, ChangesTypeOK, InstallerTypeOK, PlansOK, DependenciesInStep, PhasesOK,
         Requirements
<1>2. CurrentDependencies(c) = Dependencies(c)
  BY DEF CurrentDependencies
<1>3. PICK i \in DOMAIN resolved : resolved[i] = c
  BY DEF Range
<1>4. IsFound(r) /\ (InstalledMeets(r) \/ \E j \in 1..(i - 1) : resolved[j] = r.name)
  BY <1>1, <1>2, <1>3 DEF OrderOK
<1>5. r.name \notin Range(resolved)
  BY <1>1, <1>4, ChangedTo DEF IsFound
<1>6. InstalledMeets(r)
  <2>1. DOMAIN resolved = 1 .. Len(resolved) /\ Len(resolved) \in Nat
    BY <1>1, RangeType
  <2>2. \A j \in 1..(i - 1) : j \in DOMAIN resolved
    BY <2>1
  <2> QED
    BY <1>4, <1>5, <2>2 DEF Range
<1>7. r.name \in Removed
  BY <1>1, <1>5, <1>6, ChangedTo DEF InstalledMeets
<1>8. Changed[r.name] = 0
  BY <1>1, <1>5, <1>7, ChangedTo
<1>9. mode = "PackageManager"
  BY <1>7 DEF Removed
<1> QED
  BY <1>6, <1>8, <1>9 DEF InstalledMeets, UpdateRequested, IsUpdateAvailable

\* A component that is replaced without its update having been asked for.
LEMMA ReplacedIsOlder ==
  ASSUME SessionInv, installResult = "solved", Planning, Outdated(before) = {},
         NEW c \in Range(resolved), installed[c] # 0, ~UpdateRequested(c)
  PROVE  /\ installed[c] # Changed[c]
         /\ ~(mode = "Updater" /\ c \in checked)
<1>1. /\ ComponentTypeOK
      /\ c \in toInstall /\ c \in Components
      /\ \A d \in toInstall \cap InstalledSet : Reason(d, toInstall, toInstall)
  BY WhenSolved DEF SessionInv, ChangesTypeOK
<1>2. Changed[c] = available[c] /\ available[c] \in Nat /\ installed[c] \in Nat
  BY <1>1, ChangedTo
<1>3. Reason(c, toInstall, toInstall)
  BY <1>1 DEF InstalledSet
<1>4. installed[c] < available[c]
  <2>1. CASE FollowsUpdate(c, toInstall)
    BY <2>1 DEF FollowsUpdate, IsUpdateAvailable
  <2>2. CASE Required(c, toInstall)
    <3>1. PICK r \in Requirements : r.name = c /\ IsUpdateRequired(r) /\ IsFound(r)
      BY <2>2 DEF Required
    <3>2. r.version \in Nat
      BY ComponentAssumption DEF Requirements
    <3> QED
      BY <1>2, <3>1, <3>2 DEF IsUpdateRequired, IsFound, VersionMatches
  <2> QED
    BY <1>3, <2>1, <2>2 DEF Reason
<1> QED
  BY <1>2, <1>4 DEF UpdateRequested, IsUpdateAvailable

\* A requirement of a component that stays as it is.
LEMMA OldRequirement ==
  ASSUME SessionInv, phase = "removing" => removeResult = "solved",
         phase = "removing" \/ mode = "Installer",
         installResult = "solved", Planning, Outdated(before) = {},
         NEW c \in Components \ Range(resolved), Changed[c] # 0,
         NEW r \in Range(product.dependencies[c][Changed[c]]), r \in Requirements,
         InstalledMeets(r),
         ~(Changed[r.name] # 0 /\ VersionMatches(Changed[r.name], r))
  PROVE  installed[r.name] # 0 /\ Changed[r.name] = 0 /\ r.version # 0
<1>1. /\ ComponentTypeOK /\ r.name \in Components /\ r.version \in Nat
      /\ \A d \in Components : installed[d] <= available[d]
  BY ComponentAssumption DEF SessionInv, ChangesTypeOK, PhasesOK, Requirements
<1>2. c \notin Removed /\ Changed[c] = installed[c]
  BY <1>1, ChangedTo
<1>3. r \in Range(LocalDependencies(c))
  BY <1>2 DEF LocalDependencies
<1>4. r.name \notin Range(resolved)
  <2>1. r.name \in Range(resolved) => Changed[r.name] = available[r.name] /\ Changed[r.name] # 0
    BY <1>1, ChangedTo
  <2>2. available[r.name] \in Nat /\ installed[r.name] \in Nat
    BY <1>1, ChangedTo
  <2> QED
    BY <1>1, <2>1, <2>2 DEF InstalledMeets, VersionMatches
<1>5. r.name \in Removed
  BY <1>1, <1>4, ChangedTo DEF InstalledMeets
<1>6. r.name \in Scheduled /\ mode = "PackageManager" /\ Removed = Scheduled
  BY <1>5 DEF Removed
<1>7. ASSUME r.version = 0 PROVE FALSE
  <2>1. r = [name |-> r.name, version |-> 0]
    BY <1>7 DEF Requirements
  <2>2. c \in LocalDependents(r.name)
    BY <1>3, <2>1 DEF LocalDependents
  <2>3. LocalDependents(r.name) \subseteq Scheduled \cup Range(resolved)
    BY <1>6, WhenSolved
  <2> QED
    BY <1>2, <1>6, <2>2, <2>3
<1> QED
  BY <1>1, <1>4, <1>5, <1>7, ChangedTo DEF InstalledMeets

LEMMA CarriedOut ==
  ASSUME SessionInv, CarryOut
  PROVE  RequirementsKept' /\ AutomaticInstalled'
<1>1. /\ installed' = Changed /\ UNCHANGED <<product, mode, available, checked, before>>
      /\ phase = "removing" => removeResult = "solved"
      /\ phase = "removing" \/ mode = "Installer"
      /\ installResult = "solved" /\ Planning /\ installed = before
  BY DEF CarryOut, SessionInv, PhasesOK, Planning
<1>2. /\ ComponentTypeOK /\ AutomaticInStep /\ Range(resolved) = toInstall
  BY <1>1 DEF SessionInv, ChangesTypeOK, PlansOK, ListsInStep
<1>3. ASSUME Outdated(before) = {}, NEW c \in Components, NEW r \in Requirements,
             <<c, r>> \in Missing(Changed), <<c, r>> \notin Missing(before)
      PROVE  \/ before[r.name] # 0 /\ Changed[r.name] = 0
                  /\ (r.version # 0 \/ before[c] = 0)
             \/ before[c] \notin {0, Changed[c]} /\ ~(mode = "Updater" /\ c \in checked)
  <2>1. /\ Changed[c] # 0 /\ r \in Range(product.dependencies[c][Changed[c]])
        /\ ~(Changed[r.name] # 0 /\ VersionMatches(Changed[r.name], r))
    BY <1>3 DEF Missing
  <2>2. CASE c \in Range(resolved) /\ (installed[c] = 0 \/ UpdateRequested(c))
    <3>1. r \in Range(Dependencies(c))
      BY <1>2, <2>1, <2>2, ChangedTo DEF Dependencies
    <3>2. installed[r.name] # 0 /\ Changed[r.name] = 0 /\ installed[c] = 0
      BY <1>1, <1>3, <2>1, <2>2, <3>1, NewRequirement
    <3> QED
      BY <1>1, <3>2
  <2>3. CASE c \in Range(resolved) /\ installed[c] # 0 /\ ~UpdateRequested(c)
    BY <1>1, <1>3, <2>3, ReplacedIsOlder
  <2>4. CASE c \notin Range(resolved)
    <3>1. Changed[c] = installed[c]
      BY <1>2, <2>1, <2>4, ChangedTo
    <3>2. InstalledMeets(r)
      BY <1>1, <1>3, <2>1, <3>1 DEF Missing, InstalledMeets
    <3>3. installed[r.name] # 0 /\ Changed[r.name] = 0 /\ r.version # 0
      BY <1>1, <1>3, <2>1, <2>4, <3>2, OldRequirement
    <3> QED
      BY <1>1, <3>3
  <2> QED
    BY <2>2, <2>3, <2>4
<1>4. RequirementsKept'
  <2>1. (Outdated(before))' = Outdated(before) /\ (Missing(before))' = Missing(before)
        /\ (Missing(installed))' = Missing(Changed)
    BY <1>1 DEF Outdated, Missing, VersionMatches
  <2>2. \A m \in Missing(Changed) : m = <<m[1], m[2]>> /\ m[1] \in Components /\ m[2] \in Requirements
    BY DEF Missing
  <2> QED
    BY <1>1, <1>3, <2>1, <2>2 DEF RequirementsKept
<1>5. AutomaticInstalled'
  <2> SUFFICES ASSUME mode # "Updater", NEW a \in Components, before[a] = 0,
                      product.autoDependOn[a] # {},
                      \A x \in product.autoDependOn[a] : x \in Components /\ Changed[x] # 0,
                      NEW c \in product.autoDependOn[a], before[c] = 0
               PROVE  Changed[a] # 0
    BY <1>1 DEF AutomaticInstalled, InstalledSet
  <2>1. \A x \in product.autoDependOn[a] : x \in toInstall \/ installed[x] # 0
    BY <1>2, ChangedTo
  <2>2. c \in toInstall
    BY <1>1, <2>1
  <2>3. AutomaticDue(a)
    BY <1>1, <2>1, <2>2 DEF AutomaticDue, InstalledSet
  <2>4. a \in toInstall
    BY <1>1, <1>2, <2>3 DEF AutomaticInStep
  <2> QED
    BY <1>2, <2>4, ChangedTo
<1> QED
  BY <1>4, <1>5

LEMMA SessionsKeep ==
  ASSUME SessionInv, DependenciesKept, [Next]_vars
  PROVE  DependenciesKept'
<1> SUFFICES ASSUME phase' = "closed" PROVE RequirementsKept' /\ AutomaticInstalled'
  BY DEF DependenciesKept
<1>1. CASE CarryOut
  BY <1>1, CarriedOut
<1>2. CASE TreeFailed \/ CalculationFailed
  <2>1. installed = before /\ UNCHANGED <<installed, before>>
    BY <1>2 DEF TreeFailed, CalculationFailed, SessionInv, PhasesOK, componentVars
  <2>2. installed' = before'
    BY <2>1
  <2> QED
    BY <2>2 DEF RequirementsKept, AutomaticInstalled, InstalledSet
<1>3. CASE UNCHANGED vars
  <2>1. UNCHANGED <<product, mode, available, installed, checked, before, phase>>
    BY <1>3 DEF vars, changeVars, componentVars
  <2>2. RequirementsKept /\ AutomaticInstalled
    BY <2>1 DEF DependenciesKept
  <2>3. RequirementsKept'
    BY <2>1, <2>2 DEF RequirementsKept, Outdated, Missing, VersionMatches
  <2>4. AutomaticInstalled'
    BY <2>1, <2>2 DEF AutomaticInstalled, InstalledSet
  <2> QED
    BY <2>3, <2>4
<1>4. CASE Solving \/ Removing
  BY <1>4 DEF Solving, Removing, SessionInv, PhasesOK, changeVars
<1>5. CASE \/ OpenInstaller \/ OpenPackageManager \/ OpenUpdater \/ TreeBuilt
           \/ CalculateComponentsToInstall \/ CalculateComponentsToUninstall \/ Overflow
  BY <1>5 DEF OpenInstaller, OpenPackageManager, OpenUpdater, BuildComponentTree, TreeBuilt,
              CalculateComponentsToInstall, CalculateComponentsToUninstall, Overflow
<1> QED
  BY <1>1, <1>2, <1>3, <1>4, <1>5 DEF Next, Done

\* A session of the installer, the package manager or the updater leaves a
\* requirement open in the three ways the code allows only, and installs every
\* automatic component with the last of those it depends on, in every product.
THEOREM SessionsKeepDependencies == Spec => []DependenciesKept
<1>1. Init => SessionInv /\ DependenciesKept
  <2>1. Init => installed = before
    BY DEF Init
  <2> QED
    BY <2>1, SessionInit, NothingChanged DEF DependenciesKept
<1>2. SessionInv /\ DependenciesKept /\ [Next]_vars => SessionInv' /\ DependenciesKept'
  BY SessionStep, SessionsKeep
<1> QED
  BY <1>1, <1>2, PTL DEF Spec

-----------------------------------------------------------------------------
(* Why no selection fails once the tree was built                          *)

\* What solveComponent() goes down to, if there is no update.
Needed(r) == installed[r.name] = 0 \/ IsUpdateRequired(r)

\* The components can be put in an order in which everything is needed by later
\* ones only, and the repository has it.
RankOK(rank) ==
  \A c \in Components : \A r \in Range(CurrentDependencies(c)) :
    IsFound(r) /\ (Needed(r) => rank[r.name] < rank[c])

\* The calls of solveComponent() follow that order downwards.
CallsRanked(rank, stack) ==
  \A i, j \in 1 .. Len(stack) - 1 :
    i < j => rank[stack[i].component] < rank[stack[j].component]

\* A pair in visited is being solved.
AskedFor(p, stack) ==
  \E i \in 2 .. Len(stack) - 1 :
    /\ stack[i].component = p[1] /\ stack[i - 1].component = p[2]
    /\ WillAdd(stack[i - 1])

VisitsOK(pairs, stack, added) == \A p \in pairs : p[2] \in added \/ AskedFor(p, stack)

\* With those, none of the reasons to fail occurs.
LEMMA NoFailure ==
  ASSUME ComponentTypeOK, InstallerTypeOK, InstallCallsOK, ListsInStep, DependenciesInStep,
         installStack # <<>>, NEW rank \in [Components -> Nat], RankOK(rank),
         CallsRanked(rank, installStack), VisitsOK(visited, installStack, toInstall)
  PROVE  ~FailsFor
<1> DEFINE n == Len(installStack)
<1>1. /\ n \in Nat \ {0} /\ DOMAIN installStack = 1 .. n /\ Frame = installStack[1]
      /\ Frame \in SolveFrames => Frame.call = "solve"
      /\ Frame \in ComponentFrames => n > 1 /\ Frame.call = "solveComponent"
  BY InstallPositions DEF SolveFrames, ComponentFrames
<1>2. ASSUME Frame \in SolveFrames, Frame.components # <<>>, Head(Frame.components) \in toInstall
      PROVE  FALSE
  <2>1. Frame.components \in Seq(Components)
    BY <1>2 DEF SolveFrames
  <2>2. Head(Frame.components) \in Range(Frame.components)
    BY <1>2, <2>1, RangeHeadTail
  <2>3. 1 \in DOMAIN installStack
    BY <1>1
  <2> QED
    BY <1>1, <1>2, <2>2, <2>3 DEF ListsInStep
<1>3. ASSUME Frame \in ComponentFrames, Frame.dependencies # <<>>
      PROVE  /\ Frame.component \in Components /\ Dependency \in Range(CurrentDependencies(Frame.component))
             /\ IsFound(Dependency)
  <2>1. Frame.dependencies \in Seq(Requirements) /\ Frame.component \in Components
    BY <1>3 DEF ComponentFrames
  <2>2. 1 \in DOMAIN installStack
    BY <1>1
  <2>3. LoopOK(1, installStack, toInstall)
    BY <1>1, <1>3, <2>2 DEF DependenciesInStep
  <2>4. Dependency \in Range(CurrentDependencies(Frame.component))
    BY <1>1, <1>3, <2>1, <2>3, RangeHeadTail DEF Dependency, LoopOK
  <2> QED
    BY <2>1, <2>4 DEF RankOK
<1>4. ASSUME Frame \in ComponentFrames, Frame.dependencies # <<>>, MustSolve,
             <<Frame.component, Dependency.name>> \in visited
      PROVE  FALSE
  <2> DEFINE p == <<Frame.component, Dependency.name>>
  <2>1. p[1] = Frame.component /\ p[2] = Dependency.name
    OBVIOUS
  <2>2. AskedFor(p, installStack)
    BY <1>4, <2>1 DEF VisitsOK, MustSolve
  <2>3. PICK i \in 2 .. n - 1 : installStack[i].component = Frame.component
    BY <2>1, <2>2 DEF AskedFor
  <2>4. 1 \in 1 .. n - 1 /\ i \in 1 .. n - 1 /\ 1 < i
    BY <1>1, <2>3
  <2>5. rank[Frame.component] < rank[Frame.component]
    BY <1>1, <2>3, <2>4 DEF CallsRanked
  <2>6. rank[Frame.component] \in Nat
    BY <1>3, <1>4
  <2> QED
    BY <2>5, <2>6
<1> QED
  BY <1>2, <1>3, <1>4 DEF FailsFor

\* A step keeps the order of the calls and the pairs.
LEMMA CallsStayRanked ==
  ASSUME ComponentTypeOK, InstallerTypeOK, InstallCallsOK, ListsInStep, DependenciesInStep,
         InstallerNext, mode # "Updater", Outdated(installed) = {},
         NEW rank \in [Components -> Nat], RankOK(rank),
         CallsRanked(rank, installStack), VisitsOK(visited, installStack, toInstall)
  PROVE  /\ installResult' # "failed"
         /\ CallsRanked(rank, installStack')
         /\ VisitsOK(visited', installStack', toInstall')
<1> DEFINE n == Len(installStack)
           s == installStack
           t == installStack'
           a == toInstall
           b == toInstall'
<1>1. /\ s # <<>> /\ n \in Nat \ {0} /\ DOMAIN s = 1 .. n /\ Frame = s[1]
      /\ Frame \in SolveFrames => n = 1
      /\ Frame \in ComponentFrames => n > 1
      /\ \A i \in 1 .. n - 1 : s[i].component \in Components
      /\ installResult = "running"
  BY InstallerSteps, InstallPositions DEF ComponentFrames
<1>2. a \subseteq b
  BY ListGrows
<1>3. ~FailsFor
  BY <1>1, NoFailure
<1>4. \A i, j \in 1 .. n - 1 : i < j => rank[s[i].component] < rank[s[j].component]
  BY DEF CallsRanked
<1>5. \A p \in visited : p[2] \in a \/ AskedFor(p, s)
  BY DEF VisitsOK
<1>6. ASSUME Frame \in ComponentFrames, Frame.dependencies # <<>>
      PROVE  /\ Dependency \in Range(CurrentDependencies(Frame.component))
             /\ Range(Frame.dependencies) \subseteq Range(CurrentDependencies(Frame.component))
             /\ Frame.component \in Components
  <2>1. Frame.dependencies \in Seq(Requirements) /\ Frame.component \in Components
        /\ Frame.call = "solveComponent"
    BY <1>6 DEF ComponentFrames
  <2>2. LoopOK(1, s, a)
    <3>1. 1 \in DOMAIN s
      BY <1>1
    <3> QED
      BY <1>1, <2>1, <3>1 DEF DependenciesInStep
  <2>3. Range(Frame.dependencies) \subseteq Range(CurrentDependencies(Frame.component))
    BY <1>1, <2>2 DEF LoopOK
  <2> QED
    BY <1>6, <2>1, <2>3, RangeHeadTail DEF Dependency
<1> HIDE DEF n, s, t, a, b
\* From solve() nothing is being solved.
<1>7. ASSUME n = 1, visited' = visited, installResult' # "failed", Len(t) \in 0 .. 2
      PROVE  /\ installResult' # "failed" /\ CallsRanked(rank, t)
             /\ VisitsOK(visited', t, b)
  <2>1. \A p \in visited : p[2] \in a
    <3>1. ASSUME NEW p \in visited PROVE ~AskedFor(p, s)
      BY <1>7 DEF AskedFor, n, s
    <3> QED
      BY <1>5, <3>1
  <2>2. \A m \in 0 .. 2 : \A i, j \in 1 .. m - 1 : ~(i < j)
    OBVIOUS
  <2>3. \A i, j \in 1 .. Len(t) - 1 : ~(i < j)
    BY <1>7, <2>2, Zenon
  <2> QED
    BY <1>2, <1>7, <2>1, <2>3 DEF VisitsOK, CallsRanked
<1>8. ASSUME NEW c \in Components, NEW g \in SolveFrames,
             Adds(c, g) \/ Postpones(c, g)
      PROVE  n = 1 /\ visited' = visited /\ installResult' # "failed" /\ Len(t) \in 0 .. 2
  <2>1. /\ Frame \in SolveFrames /\ visited' = visited /\ installResult' = installResult
        /\ Len(t) = n
    BY <1>8 DEF Adds, Postpones, TopBecomes, n, t
  <2> QED
    BY <1>1, <2>1
<1>9. ASSUME NEW c \in Components, NEW g \in SolveFrames, NEW h \in ComponentFrames, Begins(c, g, h)
      PROVE  n = 1 /\ visited' = visited /\ installResult' # "failed" /\ Len(t) \in 0 .. 2
  <2>1. /\ Frame \in SolveFrames /\ visited' = visited /\ installResult' = installResult
        /\ Len(t) = n + 1
    BY <1>9 DEF Begins, TopCalls, n, t
  <2> QED
    BY <1>1, <2>1
<1>10. ASSUME Ends \/ \E g \in SolveFrames : Follows(g)
       PROVE  n = 1 /\ visited' = visited /\ installResult' # "failed" /\ Len(t) \in 0 .. 2
  <2>1. CASE Ends
    <3>1. /\ Frame \in SolveFrames /\ visited' = visited /\ Len(t) = n - 1
          /\ installResult' \in {"solved", installResult}
      BY <2>1 DEF Ends, TopReturns, n, t
    <3> QED
      BY <1>1, <3>1
  <2>2. CASE \E g \in SolveFrames : Follows(g)
    <3>1. /\ Frame \in SolveFrames /\ visited' = visited /\ Len(t) = n
          /\ installResult' = installResult
      BY <2>2 DEF Follows, TopBecomes, n, t
    <3> QED
      BY <1>1, <3>1
  <2> QED
    BY <1>10, <2>1, <2>2
<1>11. ASSUME NEW g \in ComponentFrames, Skips(g)
       PROVE  /\ installResult' # "failed" /\ CallsRanked(rank, t)
              /\ VisitsOK(visited', t, b)
  <2>1. /\ Frame \in ComponentFrames /\ Frame.dependencies # <<>>
        /\ g.component = Frame.component /\ g.version = RequiredVersion
        /\ Len(t) = n /\ t[1] = g
        /\ \A i \in 2 .. n : t[i] = s[i]
        /\ visited' = visited /\ installResult' = installResult
    BY <1>11 DEF Skips, TopBecomes, n, s, t
  <2>2. WillAdd(g) <=> WillAdd(Frame)
    BY <1>6, <2>1, WillAddStays
  <2>3. \A i \in 1 .. n - 1 : t[i].component = s[i].component /\ (WillAdd(s[i]) => WillAdd(t[i]))
    <3>1. \A i \in 1 .. n - 1 : i = 1 \/ i \in 2 .. n
      BY <1>1
    <3> QED
      BY <1>1, <2>1, <2>2, <3>1
  <2>4. CallsRanked(rank, t)
    BY <1>4, <2>1, <2>3 DEF CallsRanked
  <2>5. ASSUME NEW p \in visited, AskedFor(p, s) PROVE AskedFor(p, t)
    <3>1. PICK i \in 2 .. n - 1 : /\ s[i].component = p[1] /\ s[i - 1].component = p[2]
                                  /\ WillAdd(s[i - 1])
      BY <2>5 DEF AskedFor, n, s
    <3>2. i \in 1 .. n - 1 /\ i - 1 \in 1 .. n - 1
      BY <1>1, <3>1
    <3>3. /\ t[i].component = p[1] /\ t[i - 1].component = p[2] /\ WillAdd(t[i - 1])
      BY <2>3, <3>1, <3>2
    <3> QED
      BY <2>1, <3>3 DEF AskedFor
  <2> QED
    BY <1>1, <1>2, <1>5, <2>1, <2>4, <2>5 DEF VisitsOK
<1>12. ASSUME NEW g \in ComponentFrames, NEW h \in ComponentFrames, Descends(g, h)
       PROVE  /\ installResult' # "failed" /\ CallsRanked(rank, t)
              /\ VisitsOK(visited', t, b)
  <2> DEFINE q == <<Frame.component, Dependency.name>>
  <2>1. /\ Frame \in ComponentFrames /\ Frame.dependencies # <<>>
        /\ Dependency \in Requirements /\ MustSolve
        /\ g.component = Frame.component /\ g.version = RequiredVersion
        /\ h.component = Dependency.name /\ h.version = RequiredVersion
        /\ Len(t) = n + 1 /\ t[1] = h /\ t[2] = g
        /\ \A i \in 3 .. n + 1 : t[i] = s[i - 1]
        /\ visited' = visited \cup {q} /\ installResult' = installResult
    BY <1>12 DEF Descends, TopCalls, n, s, t
  <2>2. WillAdd(g) <=> WillAdd(Frame)
    BY <1>6, <2>1, WillAddStays
  <2>3. WillAdd(h)
    BY <2>1, MustSolveWillAdd
  <2>4. \A i \in 2 .. n : t[i].component = s[i - 1].component /\ (WillAdd(s[i - 1]) => WillAdd(t[i]))
    <3>1. \A i \in 2 .. n : (i = 2 /\ i - 1 = 1) \/ i \in 3 .. n + 1
      BY <1>1
    <3> QED
      BY <1>1, <2>1, <2>2, <3>1
  <2>5. rank[h.component] < rank[Frame.component]
    <3>1. Needed(Dependency)
      BY <2>1 DEF MustSolve, Needed, UpdateRequested, IsUpdateAvailable
    <3> QED
      BY <1>6, <2>1, <3>1 DEF RankOK
  <2>6. CallsRanked(rank, t)
    <3> SUFFICES ASSUME NEW i \in 1 .. n, NEW j \in 1 .. n, i < j
                 PROVE  rank[t[i].component] < rank[t[j].component]
      <4>1. Len(t) - 1 = n
        BY <1>1, <2>1
      <4> QED
        BY <4>1 DEF CallsRanked
    <3>1. j \in 2 .. n /\ j - 1 \in 1 .. n - 1 /\ 1 \in 1 .. n - 1
      BY <1>1, <2>1
    <3>2. t[j].component = s[j - 1].component
      BY <2>4, <3>1
    <3>3. CASE i = 1
      <4>1. s[j - 1].component = Frame.component \/ rank[Frame.component] < rank[s[j - 1].component]
        <5>1. j - 1 = 1 \/ 1 < j - 1
          BY <3>1
        <5> QED
          BY <1>1, <1>4, <3>1, <5>1
      <4>2. /\ rank[h.component] \in Nat /\ rank[Frame.component] \in Nat
            /\ rank[s[j - 1].component] \in Nat
        BY <1>1, <1>6, <2>1, <3>1 DEF Requirements
      <4> QED
        BY <2>1, <2>5, <3>2, <3>3, <4>1, <4>2
    <3>4. CASE i # 1
      <4>1. i \in 2 .. n /\ i - 1 \in 1 .. n - 1 /\ i - 1 < j - 1
        BY <1>1, <3>1, <3>4
      <4> QED
        BY <1>4, <2>4, <3>1, <3>2, <4>1
    <3> QED
      BY <3>3, <3>4
  <2>7. ASSUME NEW p \in visited, AskedFor(p, s) PROVE AskedFor(p, t)
    <3>1. PICK i \in 2 .. n - 1 : /\ s[i].component = p[1] /\ s[i - 1].component = p[2]
                                  /\ WillAdd(s[i - 1])
      BY <2>7 DEF AskedFor, n, s
    <3>2. /\ i \in 2 .. n /\ i + 1 \in 2 .. n /\ i + 1 - 1 = i
      BY <1>1, <3>1
    <3>3. /\ t[i + 1].component = p[1] /\ t[i].component = p[2] /\ WillAdd(t[i])
      BY <2>4, <3>1, <3>2
    <3>4. Len(t) - 1 = n
      BY <1>1, <2>1
    <3> QED
      BY <3>2, <3>3, <3>4 DEF AskedFor
  <2>8. AskedFor(q, t)
    <3>1. q[1] = Frame.component /\ q[2] = Dependency.name
      OBVIOUS
    <3>2. 2 \in 2 .. Len(t) - 1 /\ 2 - 1 = 1
      BY <1>1, <2>1
    <3> HIDE DEF q
    <3> QED
      BY <2>1, <2>3, <3>1, <3>2 DEF AskedFor
  <2> HIDE DEF q
  <2> QED
    BY <1>1, <1>2, <1>5, <2>1, <2>6, <2>7, <2>8 DEF VisitsOK
<1>13. ASSUME Completes
       PROVE  /\ installResult' # "failed" /\ CallsRanked(rank, t)
              /\ VisitsOK(visited', t, b)
  <2>1. /\ Frame \in ComponentFrames /\ n > 1 /\ Len(t) = n - 1
        /\ \A i \in 1 .. n - 1 : t[i] = s[i + 1]
        /\ Frame.component \in Components /\ Handles(Frame.component)
        /\ visited' = visited /\ installResult' \in {"solved", installResult}
    BY <1>1, <1>13 DEF Completes, TopReturns, n, s, t, ComponentFrames, Handles
  <2>2. Frame.component \in b \/ ~WillAdd(Frame)
    BY <1>13, <2>1, HandledIsAdded DEF b
  <2>3. CallsRanked(rank, t)
    <3> SUFFICES ASSUME NEW i \in 1 .. n - 2, NEW j \in 1 .. n - 2, i < j
                 PROVE  rank[t[i].component] < rank[t[j].component]
      <4>1. Len(t) - 1 = n - 2
        BY <1>1, <2>1
      <4> QED
        BY <4>1 DEF CallsRanked
    <3>1. /\ i \in 1 .. n - 1 /\ j \in 1 .. n - 1 /\ i + 1 \in 1 .. n - 1 /\ j + 1 \in 1 .. n - 1
          /\ i + 1 < j + 1
      BY <1>1
    <3> QED
      BY <1>4, <2>1, <3>1
  <2>4. ASSUME NEW p \in visited, AskedFor(p, s) PROVE p[2] \in b \/ AskedFor(p, t)
    <3>1. PICK i \in 2 .. n - 1 : /\ s[i].component = p[1] /\ s[i - 1].component = p[2]
                                  /\ WillAdd(s[i - 1])
      BY <2>4 DEF AskedFor, n, s
    <3>2. CASE i = 2
      <4>1. i - 1 = 1
        BY <3>2
      <4> QED
        BY <1>1, <2>2, <3>1, <4>1
    <3>3. CASE i # 2
      <4>1. /\ i - 1 \in 2 .. Len(t) - 1 /\ i - 1 \in 1 .. n - 1 /\ i - 1 + 1 = i
            /\ i - 1 - 1 \in 1 .. n - 1 /\ i - 1 - 1 + 1 = i - 1
        BY <1>1, <2>1, <3>1, <3>3
      <4>2. t[i - 1] = s[i] /\ t[i - 1 - 1] = s[i - 1]
        BY <2>1, <4>1
      <4> QED
        BY <3>1, <4>1, <4>2 DEF AskedFor
    <3> QED
      BY <3>2, <3>3
  <2> QED
    BY <1>1, <1>2, <1>5, <2>1, <2>3, <2>4 DEF VisitsOK
<1> QED
  BY InstallerSteps, <1>3, <1>7, <1>8, <1>9, <1>10, <1>11, <1>12, <1>13 DEF t, b

\* While the tree is built, all components are added, found in order or awaited.
TreeOK ==
  phase = "fetched" /\ installResult # "failed" =>
    \A c \in Components : c \in Pending \/ c \in toInstall \/ Resolvable(c)

\* Afterwards the order they were resolved in serves every calculation.
SelectionOK ==
  phase \in {"selecting", "calculating"} =>
    \E rank \in [Components -> Nat] :
      /\ RankOK(rank)
      /\ phase = "calculating" =>
           /\ installResult # "failed" /\ CallsRanked(rank, installStack)
           /\ VisitsOK(visited, installStack, toInstall)

ResolveInv == mode # "Updater" /\ Outdated(before) = {} => TreeOK /\ SelectionOK

\* The order does not depend on what is checked.
LEMMA RankStays ==
  ASSUME UNCHANGED <<product, mode, available, installed>>, mode # "Updater",
         NEW rank, RankOK(rank)
  PROVE  RankOK(rank)'
<1>1. /\ \A c : CurrentDependencies(c)' = CurrentDependencies(c)
      /\ \A r : IsFound(r)' = IsFound(r)
      /\ \A r : IsUpdateRequired(r)' = IsUpdateRequired(r)
  BY DEF CurrentDependencies, LocalDependencies, Dependencies, UpdateRequested,
         IsUpdateAvailable, IsFound, IsUpdateRequired, VersionMatches
<1>2. \A r : Needed(r)' = Needed(r)
  BY <1>1 DEF Needed
<1>3. \A c : Range(CurrentDependencies(c))' = Range(CurrentDependencies(c))
  BY <1>1 DEF Range
<1> QED
  BY <1>1, <1>2, <1>3 DEF RankOK

LEMMA CallsPrime ==
  ASSUME UNCHANGED componentVars, NEW rank
  PROVE  /\ CallsRanked(rank, installStack') => CallsRanked(rank, installStack)'
         /\ VisitsOK(visited', installStack', toInstall') => VisitsOK(visited, installStack, toInstall)'
<1>1. \A f : WillAdd(f)' = WillAdd(f)
  BY QuestionsStay
<1>2. CallsRanked(rank, installStack') => CallsRanked(rank, installStack)'
  BY DEF CallsRanked
<1>3. ASSUME VisitsOK(visited', installStack', toInstall')
      PROVE  VisitsOK(visited, installStack, toInstall)'
  <2>1. \A p : AskedFor(p, installStack') => AskedFor(p, installStack)'
    BY <1>1 DEF AskedFor
  <2> QED
    BY <1>3, <2>1 DEF VisitsOK
<1> QED
  BY <1>2, <1>3

\* All components are checked when the tree is built.
LEMMA TreeBegins ==
  ASSUME BuildComponentTree
  PROVE  \A c \in Components : c \in Pending'
<1>1. PICK order \in Orders(Components) : StartInstaller(order)
  BY DEF BuildComponentTree
<1>2. /\ order \in Seq(Components) /\ Range(order) = Components
      /\ order = <<>> <=> Components = {}
  BY <1>1, OrderProperties
<1>3. CASE order = <<>>
  BY <1>2, <1>3
<1>4. CASE order # <<>>
  <2> DEFINE f == Solve(order)
  <2>1. f.call = "solve" /\ f.components = order
    BY <1>2, SolveType
  <2>2. installStack' = <<f>>
    BY <1>1, <1>4 DEF StartInstaller
  <2> HIDE DEF f
  <2>3. 1 \in DOMAIN <<f>> /\ <<f>>[1] = f
    OBVIOUS
  <2>4. 1 \in DOMAIN installStack' /\ installStack'[1] = f
    BY <2>2, <2>3
  <2>5. \A c \in Components : c \in Of(f)
    BY <1>2, <2>1 DEF Of
  <2>6. Of(installStack[1])' = Of(f)
    BY <2>4 DEF Of, Range
  <2> QED
    BY <2>4, <2>5, <2>6 DEF Pending
<1> QED
  BY <1>3, <1>4

LEMMA TreeGrows ==
  ASSUME SessionInv, TreeOK, Outdated(before) = {}, Solving, phase = "fetched"
  PROVE  TreeOK'
<1>1. /\ InstallerNext /\ installResult = "running" /\ UNCHANGED componentVars
  BY DEF Solving
<1>2. /\ ComponentTypeOK /\ InstallerTypeOK /\ InstallCallsOK /\ DependenciesInStep
      /\ installStack # <<>>
  BY <1>1 DEF SessionInv, ChangesTypeOK, PlansOK, Planning, InstallCallsOK
<1>3. toInstall \subseteq toInstall'
  BY <1>1, <1>2, ListGrows
<1>4. ASSUME NEW c, Resolvable(c) PROVE Resolvable(c)'
  <2>1. /\ CurrentDependencies(c)' = CurrentDependencies(c)
        /\ \A r : IsFound(r)' = IsFound(r)
        /\ \A r : InstalledMeets(r)' = InstalledMeets(r)
    BY <1>1, QuestionsStay
  <2>2. \A r : Met(r) => Met(r)'
    BY <1>3, <2>1 DEF Met
  <2>3. Range(CurrentDependencies(c))' = Range(CurrentDependencies(c))
    BY <2>1 DEF Range
  <2> QED
    BY <1>4, <2>1, <2>2, <2>3 DEF Resolvable
<1>5. ASSUME installResult' # "failed", NEW c \in Components
      PROVE  c \in Pending' \/ c \in toInstall' \/ Resolvable(c)'
  <2>1. c \in Pending \/ c \in toInstall \/ Resolvable(c)
    BY <1>1 DEF TreeOK
  <2>2. CASE c \in Pending
    <3>1. c \in Pending' \/ Handles(c)
      BY <1>1, <1>2, <1>5, <2>2, PendingKept
    <3>2. Handles(c) => c \in toInstall \/ Resolvable(c)
      BY <1>2, HandledIsResolvable
    <3> QED
      BY <1>3, <1>4, <3>1, <3>2
  <2> QED
    BY <1>3, <1>4, <2>1, <2>2
<1> QED
  BY <1>5 DEF TreeOK

\* The order is that of the list, with what did not have to be added at its end.
LEMMA RankFound ==
  ASSUME SessionInv, TreeOK, Outdated(before) = {}, phase = "fetched", installResult = "solved"
  PROVE  \E rank \in [Components -> Nat] : RankOK(rank)
<1> DEFINE n == Len(resolved)
           position(c) == CHOOSE i \in DOMAIN resolved : resolved[i] = c
           rank == [c \in Components |-> IF c \in toInstall THEN position(c) ELSE n + 1]
<1>1. /\ ComponentTypeOK /\ resolved \in Seq(Components) /\ NoRepeat(resolved)
      /\ Range(resolved) = toInstall /\ OrderOK(resolved) /\ installStack = <<>>
  BY DEF SessionInv, ChangesTypeOK, InstallerTypeOK, InstallCallsOK, ListsInStep, PlansOK,
         Planning, DependenciesInStep
<1>2. Pending = {}
  <2>1. DOMAIN <<>> = {}
    OBVIOUS
  <2> QED
    BY <1>1, <2>1 DEF Pending
<1>3. DOMAIN resolved = 1 .. n /\ n \in Nat
  BY <1>1, RangeType
<1>4. ASSUME NEW i \in DOMAIN resolved PROVE position(resolved[i]) = i
  BY <1>1 DEF NoRepeat
<1>5. ASSUME NEW c \in toInstall PROVE position(c) \in 1 .. n /\ resolved[position(c)] = c
  BY <1>1, <1>3 DEF Range
<1> HIDE DEF n, position
<1>6. rank \in [Components -> Nat]
  BY <1>3, <1>5
<1>7. ASSUME NEW c \in Components, NEW r \in Range(CurrentDependencies(c))
      PROVE  IsFound(r) /\ (Needed(r) => rank[r.name] < rank[c])
  <2>1. r \in Requirements /\ r.name \in Components /\ r.version \in Nat
    BY <1>1, <1>7, DependencyTypes, ComponentAssumption DEF Requirements
  <2>2. Needed(r) => ~InstalledMeets(r)
    <3>1. installed[r.name] \in Nat
      BY <1>1, <2>1, ComponentAssumption DEF ComponentTypeOK
    <3> QED
      BY <2>1, <3>1 DEF Needed, InstalledMeets, IsUpdateRequired, VersionMatches
  <2>3. CASE c \in toInstall
    <3>1. position(c) \in DOMAIN resolved /\ resolved[position(c)] = c
      BY <1>3, <1>5, <2>3
    <3>2. IsFound(r) /\ (InstalledMeets(r) \/ \E j \in 1..(position(c) - 1) : resolved[j] = r.name)
      BY <1>1, <1>7, <3>1 DEF OrderOK
    <3>3. ASSUME NEW j \in 1..(position(c) - 1), resolved[j] = r.name
          PROVE  rank[r.name] < rank[c]
      <4>1. j \in DOMAIN resolved /\ j < position(c)
        BY <1>3, <3>1
      <4>2. r.name \in toInstall /\ position(r.name) = j
        BY <1>1, <1>4, <3>3, <4>1 DEF Range
      <4> QED
        BY <2>1, <2>3, <4>1, <4>2
    <3> QED
      BY <2>2, <3>2, <3>3
  <2>4. CASE c \notin toInstall
    <3>1. Resolvable(c)
      BY <1>2, <2>4 DEF TreeOK
    <3>2. IsFound(r) /\ Met(r)
      BY <1>7, <3>1 DEF Resolvable
    <3>3. ASSUME r.name \in toInstall PROVE rank[r.name] < rank[c]
      <4>1. position(r.name) \in 1 .. n /\ rank[r.name] = position(r.name) /\ rank[c] = n + 1
        BY <1>5, <2>1, <2>4, <3>3
      <4> QED
        BY <1>3, <4>1
    <3> QED
      BY <2>2, <3>2, <3>3 DEF Met
  <2> QED
    BY <2>3, <2>4
<1> QED
  BY <1>6, <1>7 DEF RankOK

\* A calculation starts without calls of solveComponent().
LEMMA SelectionBegins ==
  ASSUME SelectionOK, CalculateComponentsToInstall, mode # "Updater"
  PROVE  SelectionOK'
<1>1. /\ phase = "selecting" /\ UNCHANGED <<product, mode, available, installed>>
      /\ \E order \in Orders(MarkedForInstallation') : StartInstaller(order)
  BY DEF CalculateComponentsToInstall
<1>2. PICK order \in Orders(MarkedForInstallation') : StartInstaller(order)
  BY <1>1
<1>3. /\ visited' = {} /\ installResult' # "failed"
      /\ installStack' = <<>> \/ installStack' = <<Solve(order)>>
  BY <1>2 DEF StartInstaller
<1>4. PICK rank \in [Components -> Nat] : RankOK(rank)
  BY <1>1 DEF SelectionOK
<1>5. RankOK(rank)'
  BY <1>1, <1>4, RankStays
<1>6. VisitsOK(visited, installStack, toInstall)'
  BY <1>3 DEF VisitsOK
<1>7. CallsRanked(rank, installStack)'
  <2>1. Len(installStack') \in 0 .. 1
    <3>1. Len(<<>>) = 0 /\ Len(<<Solve(order)>>) = 1
      OBVIOUS
    <3> QED
      BY <1>3, <3>1
  <2>2. \A m \in 0 .. 1 : \A i, j \in 1 .. m - 1 : ~(i < j)
    OBVIOUS
  <2>3. \A i, j \in 1 .. Len(installStack') - 1 : ~(i < j)
    BY <2>1, <2>2, Zenon
  <2> QED
    BY <2>3 DEF CallsRanked
<1> QED
  BY <1>3, <1>4, <1>5, <1>6, <1>7 DEF SelectionOK

LEMMA SelectionGoesOn ==
  ASSUME SessionInv, SelectionOK, Outdated(before) = {}, mode # "Updater",
         Solving, phase = "calculating"
  PROVE  SelectionOK'
<1>1. InstallerNext /\ UNCHANGED componentVars /\ UNCHANGED <<product, mode, available, installed>>
  BY DEF Solving, componentVars
<1>2. /\ ComponentTypeOK /\ InstallerTypeOK /\ InstallCallsOK /\ ListsInStep /\ DependenciesInStep
      /\ Outdated(installed) = {}
  BY DEF SessionInv, ChangesTypeOK, PlansOK, Planning, PhasesOK
<1>3. PICK rank \in [Components -> Nat] :
        /\ RankOK(rank) /\ CallsRanked(rank, installStack)
        /\ VisitsOK(visited, installStack, toInstall)
  BY DEF SelectionOK
<1>4. /\ installResult' # "failed" /\ CallsRanked(rank, installStack')
      /\ VisitsOK(visited', installStack', toInstall')
  BY <1>1, <1>2, <1>3, CallsStayRanked
<1>5. CallsRanked(rank, installStack)' /\ VisitsOK(visited, installStack, toInstall)'
  BY <1>1, <1>4, CallsPrime
<1>6. RankOK(rank)'
  BY <1>1, <1>3, RankStays
<1> QED
  BY <1>4, <1>5, <1>6 DEF SelectionOK

LEMMA ResolveStep ==
  ASSUME SessionInv, ResolveInv, [Next]_vars
  PROVE  ResolveInv'
<1>1. CASE OpenInstaller \/ OpenPackageManager
  <2>1. phase' = "fetched" /\ BuildComponentTree
    BY <1>1 DEF OpenInstaller, OpenPackageManager, BuildComponentTree
  <2> QED
    BY <2>1, TreeBegins DEF ResolveInv, TreeOK, SelectionOK
<1>2. CASE OpenUpdater
  BY <1>2 DEF OpenUpdater, ResolveInv
<1>3. CASE \/ TreeFailed \/ CalculationFailed \/ CalculateComponentsToUninstall
           \/ Overflow \/ CarryOut
  <2>1. phase' \notin {"fetched", "selecting", "calculating"}
    BY <1>3 DEF TreeFailed, CalculationFailed, CalculateComponentsToUninstall, Overflow, CarryOut
  <2> QED
    BY <2>1 DEF ResolveInv, TreeOK, SelectionOK
<1>4. CASE Removing
  <2>1. phase' = "removing"
    BY <1>4 DEF Removing, changeVars, SessionInv, PhasesOK
  <2> QED
    BY <2>1 DEF ResolveInv, TreeOK, SelectionOK
<1> SUFFICES ASSUME TreeBuilt \/ CalculateComponentsToInstall \/ Solving \/ UNCHANGED vars,
                    mode' # "Updater", (Outdated(before))' = {}
             PROVE  TreeOK' /\ SelectionOK'
  BY <1>1, <1>2, <1>3, <1>4 DEF Next, Done, ResolveInv
<1>5. UNCHANGED <<product, mode, available, installed, before>>
  BY DEF TreeBuilt, CalculateComponentsToInstall, Solving, vars, changeVars, componentVars
<1>6. mode # "Updater" /\ Outdated(before) = {} /\ TreeOK /\ SelectionOK
  BY <1>5, NothingOutdated DEF ResolveInv
<1>7. CASE TreeBuilt
  <2>1. PICK rank \in [Components -> Nat] : RankOK(rank)
    BY <1>6, <1>7, RankFound DEF TreeBuilt
  <2>2. RankOK(rank)'
    BY <1>5, <1>6, <2>1, RankStays
  <2>3. phase' = "selecting"
    BY <1>7 DEF TreeBuilt
  <2> QED
    BY <2>2, <2>3 DEF TreeOK, SelectionOK
<1>8. CASE CalculateComponentsToInstall
  <2>1. phase' = "calculating"
    BY <1>8 DEF CalculateComponentsToInstall
  <2> QED
    BY <1>6, <1>8, <2>1, SelectionBegins DEF TreeOK
<1>9. CASE Solving
  <2>1. phase \in {"fetched", "calculating"} /\ phase' = phase
    BY <1>9 DEF Solving, changeVars, SessionInv, PhasesOK
  <2>2. CASE phase = "fetched"
    BY <1>6, <1>9, <2>1, <2>2, TreeGrows DEF SelectionOK
  <2>3. CASE phase = "calculating"
    BY <1>6, <1>9, <2>1, <2>3, SelectionGoesOn DEF TreeOK
  <2> QED
    BY <2>1, <2>2, <2>3
<1>10. CASE UNCHANGED vars
  <2>1. /\ UNCHANGED componentVars
        /\ UNCHANGED <<phase, installResult, toInstall, installStack, visited>>
    BY <1>10 DEF vars, installVars, changeVars
  <2>2. TreeOK'
    <3>1. /\ \A c : CurrentDependencies(c)' = CurrentDependencies(c)
          /\ \A r : IsFound(r)' = IsFound(r)
          /\ \A r : InstalledMeets(r)' = InstalledMeets(r)
      BY <2>1, QuestionsStay
    <3>2. /\ \A r : Met(r)' = Met(r)
          /\ \A c : Range(CurrentDependencies(c))' = Range(CurrentDependencies(c))
      BY <2>1, <3>1 DEF Met, Range
    <3>3. \A c : Resolvable(c)' = Resolvable(c)
      BY <3>1, <3>2 DEF Resolvable
    <3>4. Pending' = Pending
      BY <2>1 DEF Pending, Of
    <3> QED
      BY <1>6, <2>1, <3>3, <3>4 DEF TreeOK
  <2>3. SelectionOK'
    <3>1. ASSUME NEW rank \in [Components -> Nat], RankOK(rank) PROVE RankOK(rank)'
      BY <1>5, <1>6, <3>1, RankStays
    <3>2. ASSUME NEW rank PROVE CallsRanked(rank, installStack) => CallsRanked(rank, installStack)'
      BY <2>1 DEF CallsRanked
    <3>3. ASSUME VisitsOK(visited, installStack, toInstall)
          PROVE  VisitsOK(visited, installStack, toInstall)'
      BY <2>1, <3>3, CallsPrime
    <3> QED
      BY <1>6, <2>1, <3>1, <3>2, <3>3 DEF SelectionOK
  <2> QED
    BY <2>2, <2>3
<1> QED
  BY <1>7, <1>8, <1>9, <1>10

\* Once the tree of all components was built with nothing outdated, no
\* selection of the user makes the calculation of the installation fail.
THEOREM TreeStandsForSelections ==
  Spec => [](Outdated(before) = {} => CheckedComponentsResolve)
<1>1. Init => SessionInv /\ ResolveInv
  <2>1. Init => ResolveInv
    BY DEF Init, ResolveInv, TreeOK, SelectionOK
  <2> QED
    BY <2>1, SessionInit
<1>2. SessionInv /\ ResolveInv /\ [Next]_vars => SessionInv' /\ ResolveInv'
  BY SessionStep, ResolveStep
<1>3. ResolveInv => (Outdated(before) = {} => CheckedComponentsResolve)
  BY DEF ResolveInv, SelectionOK, CheckedComponentsResolve
<1> QED
  BY <1>1, <1>2, <1>3, PTL DEF Spec
=============================================================================
