----------------------------- MODULE Benchmarks -----------------------------
(***************************************************************************)
(* The programs that measure single operations of the runtime: trees,      *)
(* chains and fans of TPs, codelets or loop iterations, and a single       *)
(* codelet or TP.  They compute nothing; what matters is when they end.    *)
(***************************************************************************)
EXTENDS CodeletTerms

Codelet(path, kind) == <<path, <<kind, 0>>>>

-----------------------------------------------------------------------------
(* Tree/strict.cpp: a frame is signalled by its children and then signals. *)

StrictLauncher(depth, fanout, toSignal) ==
  [tp |-> "tpStrictLauncher", depth |-> depth, fanout |-> fanout, toSignal |-> toSignal]

StrictFrame(depth, fanout, toSignal) ==
  [tp |-> "tpStrict", depth |-> depth, fanout |-> fanout, toSignal |-> toSignal]

StrictLauncherConstructor(path) ==
  Frame(One("startCD", 0) @@ One("endCD", 1), Calls(<<Add(Codelet(path, "startCD"))>>))

StrictConstructor(path, f) ==
  Frame(One("CD1", 0) @@ One("CD2", f.fanout), Calls(<<Add(Codelet(path, "CD1"))>>))

Children(f, Child) ==
  [i \in 1 .. f.fanout |-> Invoke(<<"child", i>>, Child)]

(* cd1Strict::fire.                                                        *)
StrictCD1(path, f) ==
  Calls(IF f.depth = 0 THEN <<Dec(f.toSignal)>>
        ELSE Children(f, StrictFrame(f.depth - 1, f.fanout, Codelet(path, "CD2"))))

(* cd2Strict::fire.                                                        *)
StrictCD2(f) == Calls(<<Dec(f.toSignal)>>)

StrictStart(path, f) ==
  Calls(<<Invoke(<<"child", 1>>, StrictFrame(f.depth, f.fanout, Codelet(path, "endCD")))>>)

StrictEnd(f) == Calls(<<Dec(f.toSignal)>>)

-----------------------------------------------------------------------------
(* Tree/non_strict.cpp: all frames signal the codelet at the root.         *)

(* pow.                                                                    *)
Power[base \in Nat, power \in Nat] == IF power = 0 THEN 1 ELSE base * Power[base, power - 1]

NonStrictLauncher(depth, fanout, toSignal) ==
  [tp |-> "tpNonStrictLauncher", depth |-> depth, fanout |-> fanout, toSignal |-> toSignal]

NonStrictFrame(depth, fanout, toSignal) ==
  [tp |-> "tpNonStrict", depth |-> depth, fanout |-> fanout, toSignal |-> toSignal]

NonStrictLauncherConstructor(path, f) ==
  Frame(One("startCD", 0) @@ One("endCD", Power[f.fanout, f.depth]),
        Calls(<<Add(Codelet(path, "startCD"))>>))

NonStrictConstructor(path) ==
  Frame(One("CD1", 0), Calls(<<Add(Codelet(path, "CD1"))>>))

(* cd1NonStrict::fire.                                                     *)
NonStrictCD1(f) ==
  Calls((IF f.depth = 0 THEN <<>>
         ELSE Children(f, NonStrictFrame(f.depth - 1, f.fanout, f.toSignal)))
        \o <<Dec(f.toSignal)>>)

NonStrictStart(path, f) ==
  Calls(<<Invoke(<<"child", 1>>, NonStrictFrame(f.depth, f.fanout, Codelet(path, "endCD")))>>)

NonStrictEnd(f) == Calls(<<Dec(f.toSignal)>>)

-----------------------------------------------------------------------------
(* Chain/cd_chain.cpp: each codelet of an array signals the next one.      *)

CdChainFrame(depth, toSignal) == [tp |-> "cdSerial", depth |-> depth, toSignal |-> toSignal]

CdChainConstructor(path, f) ==
  Frame([c \in {"empty"} \X (0 .. f.depth - 1) |-> IF c[2] = 0 THEN 0 ELSE 1],
        Calls(<<Add(<<path, <<"empty", 0>>>>)>>))

(* cdSerialEmpty::fire; initEmpty gave the last one the toSignal.          *)
CdChainEmpty(path, f, i) ==
  Calls(<<Dec(IF i = f.depth - 1 THEN f.toSignal ELSE <<path, <<"empty", i + 1>>>>)>>)

(* Chain/tp_chain.cpp: each TP creates the next one.                       *)
TpChainFrame(n, toSignal) == [tp |-> "chainTP", num |-> n, toSignal |-> toSignal]

TpChainConstructor(path) ==
  Frame(One("check", 0), Calls(<<Add(Codelet(path, "check"))>>))

(* empty::fire.                                                            *)
TpChainCheck(f) ==
  Calls(IF f.num = 1 THEN <<Dec(f.toSignal)>>
        ELSE <<Invoke(<<"chain", 1>>, TpChainFrame(f.num - 1, f.toSignal))>>)

-----------------------------------------------------------------------------
(* Fanout/cd_fanout.cpp: codelets that signal one codelet.                 *)

CdFanoutFrame(fanout, toSignal) == [tp |-> "cdFanout", fanout |-> fanout, toSignal |-> toSignal]

(* Mutant of CdFanoutConstructor: the last one waits for one less.         *)
CdFanoutConstructorOneLess(path, f) ==
  Placed(Frame(Numbered("acd", 0 .. f.fanout - 1, 0) @@ One("end", f.fanout - 1),
               Calls([i \in 1 .. f.fanout |-> Add(<<path, <<"acd", i - 1>>>>)])),
         [c \in {"acd"} \X (0 .. f.fanout - 1) |-> c[2]])

CdFanoutConstructor(path, f) ==
  Placed(Frame(Numbered("acd", 0 .. f.fanout - 1, 0) @@ One("end", f.fanout),
               Calls([i \in 1 .. f.fanout |-> Add(<<path, <<"acd", i - 1>>>>)])),
         [c \in {"acd"} \X (0 .. f.fanout - 1) |-> c[2]])

(* aCD::fire, of the codelets of the array and of the last one.            *)
CdFanoutCD(path, f, kind) ==
  Calls(<<Dec(IF kind = "acd" THEN Codelet(path, "end") ELSE f.toSignal)>>)

(* Fanout/tp_fanout.cpp: TPs with one codelet each.                        *)
TpFanoutFrame(fanout, toSignal) == [tp |-> "tpFanout", fanout |-> fanout, toSignal |-> toSignal]
EmptyTP(toSignal) == [tp |-> "emptyTP", toSignal |-> toSignal]

TpFanoutConstructor(path, f) ==
  Frame(One("start", 0) @@ One("end", f.fanout), Calls(<<Add(Codelet(path, "start"))>>))

EmptyTPConstructor(path) ==
  Frame(One("blank", 0), Calls(<<Add(Codelet(path, "blank"))>>))

TpFanoutStarter(path, f) == Calls(Children(f, EmptyTP(Codelet(path, "end"))))

TpFanoutEnder(f) == Calls(<<Dec(f.toSignal)>>)

EmptyTPBlank(f) == Calls(<<Dec(f.toSignal)>>)

(* Fanout/cd_fanout_loop.cpp and tp_fanout_loop.cpp: the iterations of a   *)
(* codeletFor and of a paraFor; the number of the former is the status of  *)
(* its codelet.                                                            *)
CdLoopFrame(fanout, toSignal) == [tp |-> "cdFanoutLoop", fanout |-> fanout, toSignal |-> toSignal]
TpLoopFrame(fanout, toSignal) == [tp |-> "tpFanoutLoop", fanout |-> fanout, toSignal |-> toSignal]
LoopIteration(stat, toSignal) == [tp |-> "aLoop", stat |-> stat, toSignal |-> toSignal]

CdLoopConstructor(path, f) ==
  Frame(LoopDeps("aloop", f.fanout), Calls(<<Add(Codelet(path, "aloop"))>>))

TpLoopConstructor(path, f) ==
  Frame(LoopDeps("aloop", f.fanout), Calls(<<Add(Codelet(path, "aloop"))>>))

IterationConstructor(path, f) ==
  Placed(Frame(One("acd", 0), Calls(<<Add(Codelet(path, "acd"))>>)), One("acd", f.stat))

IterationCD(f) == Calls(<<Dec(f.toSignal)>>)

FanoutLoop(path, f, i) ==
  IF i = 0
  THEN LoopStart("aloop", f.fanout,
         LAMBDA it : LoopIteration(IF f.tp = "cdFanoutLoop" THEN it ELSE 0,
                                   LoopEnd(path, "aloop")))
  ELSE Calls(<<Dec(f.toSignal)>>)

-----------------------------------------------------------------------------
(* CD/cd1.cpp and CD/cd.cpp: one codelet; the TP of the latter takes the   *)
(* time when it is constructed.                                            *)

OneCodeletFrame(toSignal) == [tp |-> "oneCodelet", toSignal |-> toSignal]
TimedCodeletFrame(start, toSignal) ==
  [tp |-> "timedCodelet", start |-> start, toSignal |-> toSignal]

OneCodeletConstructor(path) ==
  Frame(One("acd", 0), Calls(<<Add(Codelet(path, "acd"))>>))

TimedCodeletConstructor(path, f) ==
  Frame(One("acd", 0), Does({}, f.start :> 1, <<Add(Codelet(path, "acd"))>>))

OneCodeletCD(f) == Calls(<<Dec(f.toSignal)>>)

(* TP/tp.cpp: a TP that signals in its constructor.                        *)
OneTPFrame(toSignal) == [tp |-> "oneTP", toSignal |-> toSignal]
OneTPConstructor(f) == Frame(<<>>, Calls(<<Dec(f.toSignal)>>))

-----------------------------------------------------------------------------
(* The frames that the mains launch, and startTime of CD/cd.cpp.           *)

StartTime == Loc(Main, "startTime", 0)

BenchmarkLaunched(name, depth, fanout) ==
  CASE name = "strict" -> StrictLauncher(depth, fanout, FinalSignal)
    [] name = "nonStrict" -> NonStrictLauncher(depth, fanout, FinalSignal)
    [] name = "cdChain" -> CdChainFrame(depth, FinalSignal)
    [] name = "tpChain" -> TpChainFrame(depth, FinalSignal)
    [] name = "cdFanout" -> CdFanoutFrame(fanout, FinalSignal)
    [] name = "tpFanout" -> TpFanoutFrame(fanout, FinalSignal)
    [] name = "cdFanoutLoop" -> CdLoopFrame(fanout, FinalSignal)
    [] name = "tpFanoutLoop" -> TpLoopFrame(fanout, FinalSignal)
    [] name = "cd" -> TimedCodeletFrame(StartTime, FinalSignal)
    [] name = "cd1" -> OneCodeletFrame(FinalSignal)
    [] name = "tp" -> OneTPFrame(FinalSignal)

BenchmarkTPs ==
  {"tpStrictLauncher", "tpStrict", "tpNonStrictLauncher", "tpNonStrict", "cdSerial",
   "chainTP", "cdFanout", "tpFanout", "emptyTP", "cdFanoutLoop", "tpFanoutLoop",
   "aLoop", "oneCodelet", "timedCodelet", "oneTP"}

BenchmarkConstruct(path, f) ==
  CASE f.tp = "tpStrictLauncher" -> StrictLauncherConstructor(path)
    [] f.tp = "tpStrict" -> StrictConstructor(path, f)
    [] f.tp = "tpNonStrictLauncher" -> NonStrictLauncherConstructor(path, f)
    [] f.tp = "tpNonStrict" -> NonStrictConstructor(path)
    [] f.tp = "cdSerial" -> CdChainConstructor(path, f)
    [] f.tp = "chainTP" -> TpChainConstructor(path)
    [] f.tp = "cdFanout" -> CdFanoutConstructor(path, f)
    [] f.tp = "tpFanout" -> TpFanoutConstructor(path, f)
    [] f.tp = "emptyTP" -> EmptyTPConstructor(path)
    [] f.tp = "cdFanoutLoop" -> CdLoopConstructor(path, f)
    [] f.tp = "tpFanoutLoop" -> TpLoopConstructor(path, f)
    [] f.tp = "aLoop" -> IterationConstructor(path, f)
    [] f.tp = "oneCodelet" -> OneCodeletConstructor(path)
    [] f.tp = "timedCodelet" -> TimedCodeletConstructor(path, f)
    [] f.tp = "oneTP" -> OneTPConstructor(f)

BenchmarkFire(path, f, name) ==
  CASE name[1] = "startCD" /\ f.tp = "tpStrictLauncher" -> StrictStart(path, f)
    [] name[1] = "endCD" /\ f.tp = "tpStrictLauncher" -> StrictEnd(f)
    [] name[1] = "CD1" /\ f.tp = "tpStrict" -> StrictCD1(path, f)
    [] name[1] = "CD2" -> StrictCD2(f)
    [] name[1] = "startCD" /\ f.tp = "tpNonStrictLauncher" -> NonStrictStart(path, f)
    [] name[1] = "endCD" /\ f.tp = "tpNonStrictLauncher" -> NonStrictEnd(f)
    [] name[1] = "CD1" /\ f.tp = "tpNonStrict" -> NonStrictCD1(f)
    [] name[1] = "empty" -> CdChainEmpty(path, f, name[2])
    [] name[1] = "check" -> TpChainCheck(f)
    [] f.tp = "cdFanout" -> CdFanoutCD(path, f, name[1])
    [] name[1] = "start" -> TpFanoutStarter(path, f)
    [] name[1] = "end" /\ f.tp = "tpFanout" -> TpFanoutEnder(f)
    [] name[1] = "blank" -> EmptyTPBlank(f)
    [] name[1] = "aloop" -> FanoutLoop(path, f, name[2])
    [] f.tp = "aLoop" -> IterationCD(f)
    [] f.tp \in {"oneCodelet", "timedCodelet"} -> OneCodeletCD(f)
=============================================================================
