------------------------ MODULE SecurityPolicyProofs ------------------------
(***************************************************************************)
(* Proofs about SecurityPolicy, for every configuration of the two command  *)
(* lists, every limit, every token and every batch.                        *)
(***************************************************************************)
EXTENDS SecurityPolicy, SequenceTheorems, TLAPS

\* What the bridge knows of a configuration it did not refuse, and that a batch
\* was judged by it.
PolicyInv ==
    /\ phase \in {"config", "refused", "validated", "judging", "judged"}
    /\ "" \notin allowed
    /\ phase \in {"validated", "judging", "judged"} => Validate
    /\ phase \in {"judging", "judged"} => batch \in Batches
    /\ phase = "judged" => sent = ParseCommandList(batch)

-----------------------------------------------------------------------------
(* The lists of commands.                                                  *)

\* A configuration that passes validate() allows no hard-denied command.
LEMMA ValidatedAllows == Validate => allowed \cap DeniedCommands = {}
BY DEF Validate, IsDeniedCommand

\* The rate-limit commands are hard-denied; of the realtime commands PUBLISH is.
LEMMA ScopedCommands ==
    /\ RatelimitCommands \subseteq DeniedCommands
    /\ RealtimeCommands \cap DeniedCommands = {"PUBLISH"}
    /\ "SCRIPT" \in RatelimitCommands
    /\ "SCRIPT" \notin RealtimeCommands
    /\ "" \notin RatelimitCommands \cup RealtimeCommands
BY DEF RatelimitCommands, RealtimeCommands, DeniedCommands

\* The checks on a name that is not SCRIPT for the rate limiter: the hard denials,
\* the allowances and the blocklist together grant what the documentation grants.
LEMMA NamesAreGranted ==
    ASSUME Validate, NEW name
    PROVE  LET rl == "ratelimit" \in caps
               rt == "realtime" \in caps
               grant == \/ "command" \in caps /\ name \in allowed
                        \/ rl /\ name \in RatelimitCommands
                        \/ rt /\ name \in RealtimeCommands
           IN  /\ (~IsDeniedCommand(name, rl, rt) /\ grant /\ name \notin Blocked)
                     <=> Granted(name)
               /\ rl /\ name = "SCRIPT" => ((grant /\ name \notin Blocked) <=> Granted(name))
BY ValidatedAllows, ScopedCommands DEF IsDeniedCommand, Blocked, Granted

-----------------------------------------------------------------------------
(* One command.                                                            *)

\* The shapes of SCRIPT as the documentation gives them.
ScriptShape(array) ==
    \E form \in {<<"LOAD", 3, 3>>, <<"EXISTS", 3, MaxCommandArgs + 1>>, <<"FLUSH", 2, 3>>} :
        /\ Len(array) \in form[2] .. form[3]
        /\ array[2].kind = "string" /\ array[2].word = form[1]
        /\ form[1] = "FLUSH" /\ Len(array) = 3 =>
              array[3].kind = "string" /\ array[3].word \in {"SYNC", "ASYNC"}

\* A name is a word, and only of a string.
LEMMA NameIsWord ==
    ASSUME NEW arg, NEW word, word # ""
    PROVE  CommandName(arg) = word <=> arg.kind = "string" /\ arg.word = word
BY DEF CommandName

\* validate_subcommand accepts the documented shapes, within the limit of arguments.
LEMMA SubcommandShapes ==
    ASSUME NEW array \in Seq(Arguments), Len(array) <= MaxCommandArgs + 1
    PROVE  ValidateSubcommand(array) <=> ScriptShape(array)
<1>0. Len(array) \in Nat /\ MaxCommandArgs \in Nat
  BY LenProperties, PolicyAssumption
<1> DEFINE sub == CommandName(array[2])
           mode == CommandName(array[3])
           A == sub = "LOAD" /\ Len(array) = 3
           B == sub = "EXISTS" /\ Len(array) >= 3
           C == sub = "FLUSH" /\ Len(array) \in 2 .. 3
                  /\ (Len(array) = 3 => mode \in {"SYNC", "ASYNC"})
<1>1. ValidateSubcommand(array) <=> A \/ B \/ C
  <2>1. ValidateSubcommand(array) <=>
          /\ Len(array) >= 2
          /\ \/ sub = "LOAD" /\ Len(array) = 3
             \/ sub = "EXISTS" /\ Len(array) >= 3
             \/ sub = "FLUSH" /\ Len(array) <= 3
                  /\ (Len(array) = 3 => mode \in {"SYNC", "ASYNC"})
    BY DEF ValidateSubcommand
  <2>2. \A n \in Nat : /\ n >= 2 /\ n <= 3 <=> n \in 2 .. 3
                       /\ n = 3 => n >= 2
                       /\ n >= 3 => n >= 2
    OBVIOUS
  <2> HIDE DEF sub, mode
  <2> QED BY <1>0, <2>1, <2>2, Zenon
<1>2. ScriptShape(array) <=>
        \/ Len(array) = 3 /\ array[2].kind = "string" /\ array[2].word = "LOAD"
        \/ Len(array) >= 3 /\ array[2].kind = "string" /\ array[2].word = "EXISTS"
        \/ /\ Len(array) \in 2 .. 3 /\ array[2].kind = "string" /\ array[2].word = "FLUSH"
           /\ Len(array) = 3 => array[3].kind = "string" /\ array[3].word \in {"SYNC", "ASYNC"}
  <2> DEFINE Form(word, low, high) ==
               /\ Len(array) \in low .. high
               /\ array[2].kind = "string" /\ array[2].word = word
               /\ word = "FLUSH" /\ Len(array) = 3 =>
                     array[3].kind = "string" /\ array[3].word \in {"SYNC", "ASYNC"}
  <2>1. ScriptShape(array) <=>
          \E form \in {<<"LOAD", 3, 3>>, <<"EXISTS", 3, MaxCommandArgs + 1>>, <<"FLUSH", 2, 3>>} :
              Form(form[1], form[2], form[3])
    BY DEF ScriptShape
  <2>2. (\E form \in {<<"LOAD", 3, 3>>, <<"EXISTS", 3, MaxCommandArgs + 1>>, <<"FLUSH", 2, 3>>} :
              Form(form[1], form[2], form[3])) <=>
          Form("LOAD", 3, 3) \/ Form("EXISTS", 3, MaxCommandArgs + 1) \/ Form("FLUSH", 2, 3)
    <3> HIDE DEF Form
    <3> QED OBVIOUS
  <2> QED BY <1>0, <2>1, <2>2
<1>3. /\ A <=> Len(array) = 3 /\ array[2].kind = "string" /\ array[2].word = "LOAD"
      /\ B <=> Len(array) >= 3 /\ array[2].kind = "string" /\ array[2].word = "EXISTS"
      /\ C <=> /\ Len(array) \in 2 .. 3
               /\ array[2].kind = "string" /\ array[2].word = "FLUSH"
               /\ Len(array) = 3 =>
                     array[3].kind = "string" /\ array[3].word \in {"SYNC", "ASYNC"}
  BY NameIsWord
<1> HIDE DEF A, B, C
<1> QED BY <1>1, <1>2, <1>3

\* parse_command_array accepts a command exactly if it is well formed and granted.
LEMMA CommandIsDecided ==
    ASSUME PolicyInv, Validate, NEW array \in Seq(Arguments)
    PROVE  ParseCommandArray(array) <=> WellFormed(array) /\ Granted(array[1].word)
<1>0. Len(array) \in Nat /\ MaxCommandArgs \in Nat /\ (array # <<>> <=> Len(array) >= 1)
  <2>1. Len(array) \in Nat /\ MaxCommandArgs \in Nat
    BY LenProperties, PolicyAssumption
  <2>2. array # <<>> => Len(array) # 0
    BY EmptySeq
  <2>3. array = <<>> => Len(array) = 0
    OBVIOUS
  <2> QED BY <2>1, <2>2, <2>3
<1> DEFINE name == CommandName(array[1])
           Sizes == Len(array) \in 1 .. MaxCommandArgs + 1
           Args == \A k \in 2 .. Len(array) : ArgBytesOk(array[k])
           rl == "ratelimit" \in caps
           rt == "realtime" \in caps
           grant == \/ "command" \in caps /\ name \in allowed
                    \/ rl /\ name \in RatelimitCommands
                    \/ rt /\ name \in RealtimeCommands
<1>1. ParseCommandArray(array) <=>
        /\ Sizes /\ name # ""
        /\ IF name = "SCRIPT" /\ rl THEN ValidateSubcommand(array)
           ELSE ~IsDeniedCommand(name, rl, rt)
        /\ grant /\ name \notin Blocked
        /\ Args
  BY DEF ParseCommandArray
<1>2. WellFormed(array) <=>
        /\ Sizes /\ array[1].kind = "string" /\ Args
        /\ array[1].word = "SCRIPT" => ScriptShape(array)
  BY <1>0 DEF WellFormed, ScriptShape, ArgBytesOk
<1>3. CASE ~Sizes
  BY <1>1, <1>2, <1>3
<1>4. CASE Sizes
  <2>1. Len(array) <= MaxCommandArgs + 1
    BY <1>0, <1>4
  <2>2. ValidateSubcommand(array) <=> ScriptShape(array)
    BY <2>1, SubcommandShapes
  <2>3. ("" \notin allowed) /\ ~Granted("")
    BY ScopedCommands DEF PolicyInv, Granted
  <2>4. /\ (~IsDeniedCommand(name, rl, rt) /\ grant /\ name \notin Blocked) <=> Granted(name)
        /\ rl /\ name = "SCRIPT" => ((grant /\ name \notin Blocked) <=> Granted(name))
    BY NamesAreGranted
  <2>5. ~rl => ~Granted("SCRIPT")
    BY ValidatedAllows, ScopedCommands DEF Granted
  <2>6. array[1].kind = "string" => name = array[1].word
    BY DEF CommandName
  <2>7. array[1].kind # "string" => name = ""
    BY DEF CommandName
  <2> HIDE DEF name, Sizes, Args, rl, rt, grant
  <2>8. CASE array[1].kind # "string"
    BY <1>1, <1>2, <2>7, <2>8
  <2>9. CASE array[1].kind = "string"
    <3>1. CASE name = "SCRIPT" /\ rl
      BY <1>1, <1>2, <1>4, <2>2, <2>4, <2>6, <2>9, <3>1
    <3>2. CASE name = "SCRIPT" /\ ~rl
      BY <1>1, <1>2, <1>4, <2>4, <2>5, <2>6, <2>9, <3>2
    <3>3. CASE name # "SCRIPT"
      BY <1>1, <1>2, <1>4, <2>3, <2>4, <2>6, <2>9, <3>3
    <3> QED BY <3>1, <3>2, <3>3
  <2> QED BY <2>8, <2>9
<1> QED BY <1>3, <1>4

-----------------------------------------------------------------------------
(* The policy.                                                             *)

LEMMA PolicyInitially == PolicyInit => PolicyInv
BY PolicyAssumption DEF PolicyInit, PolicyInv

\* A configuration is validated once, and does not change.
LEMMA PolicyStep == PolicyInv /\ [PolicyNext]_policyVars => PolicyInv'
<1> SUFFICES ASSUME PolicyInv, [PolicyNext]_policyVars PROVE PolicyInv'
  OBVIOUS
<1> USE DEF PolicyInv, Validate
<1>1. CASE UNCHANGED policyVars
  BY <1>1 DEF policyVars, ParseCommandList, ParseCommandArray, Blocked
<1>2. ASSUME NEW sound \in BOOLEAN, Start(sound) PROVE PolicyInv'
  BY <1>2 DEF Start
<1>3. ASSUME NEW tokenCaps \in (SUBSET Capabilities) \ {{}}, NEW list \in Batches,
             Receive(tokenCaps, list)
      PROVE  PolicyInv'
  BY <1>3 DEF Receive
<1>4. CASE Judge
  BY <1>4 DEF Judge, ParseCommandList, ParseCommandArray, Blocked
<1> QED BY <1>1, <1>2, <1>3, <1>4 DEF PolicyNext

\* The invariant of the policy: what was validated stays so, and what was sent was
\* judged by it.
THEOREM PolicyInvariant == PolicySpec => []PolicyInv
BY PolicyInitially, PolicyStep, PTL DEF PolicySpec

\* The checks of parse_command_array and parse_command_list, in their order and
\* with the derived blocklist, decide every batch of every token as the README
\* words the policy, under every configuration that starts.
THEOREM BatchesAreDecided == PolicySpec => []DecidesAsDocumented
<1>1. PolicyInv => DecidesAsDocumented
  <2> SUFFICES ASSUME PolicyInv, phase = "judged"
               PROVE  sent = IF /\ Len(batch) <= MaxPipelineCommands
                                /\ \A k \in 1 .. Len(batch) :
                                      WellFormed(batch[k]) /\ Granted(batch[k][1].word)
                               THEN Words(batch) ELSE Denied
    BY DEF DecidesAsDocumented
  <2>1. /\ Validate /\ sent = ParseCommandList(batch)
        /\ batch \in Seq(Seq(Arguments))
    BY PolicyAssumption DEF PolicyInv
  <2>2. ASSUME NEW k \in 1 .. Len(batch)
        PROVE  /\ ParseCommandArray(batch[k]) <=>
                     WellFormed(batch[k]) /\ Granted(batch[k][1].word)
               /\ ParseCommandArray(batch[k]) =>
                     CommandName(batch[k][1]) = batch[k][1].word
    <3>1. batch[k] \in Seq(Arguments)
      BY <2>1, ElementOfSeq
    <3>2. ParseCommandArray(batch[k]) <=> WellFormed(batch[k]) /\ Granted(batch[k][1].word)
      BY <2>1, <3>1, CommandIsDecided
    <3>3. WellFormed(batch[k]) => CommandName(batch[k][1]) = batch[k][1].word
      BY DEF WellFormed, CommandName
    <3> QED BY <3>2, <3>3
  <2>3. (\A k \in 1 .. Len(batch) : ParseCommandArray(batch[k])) =>
          [k \in 1 .. Len(batch) |-> CommandName(batch[k][1])] = Words(batch)
    BY <2>2 DEF Words
  <2> QED BY <2>1, <2>2, <2>3 DEF ParseCommandList
<1> QED BY <1>1, PolicyInvariant, PTL

\* No value of RRB_ALLOWED_COMMANDS and RRB_BLOCKED_COMMANDS and no spelling hands
\* a hard-denied command to Redis, but for the scoped exceptions.
THEOREM HardDeniesHold == PolicySpec => []HardDenyHolds
<1>1. PolicyInv => HardDenyHolds
  <2> SUFFICES ASSUME PolicyInv, phase = "judged", sent # Denied,
                      NEW k \in 1 .. Len(sent), sent[k] \in DeniedCommands
               PROVE  \/ sent[k] \in {"EVAL", "EVALSHA", "SCRIPT"} /\ "ratelimit" \in caps
                      \/ sent[k] = "PUBLISH" /\ "realtime" \in caps
    BY DEF HardDenyHolds
  <2>1. /\ Validate /\ batch \in Seq(Seq(Arguments))
        /\ sent = [j \in 1 .. Len(batch) |-> CommandName(batch[j][1])]
        /\ \A j \in 1 .. Len(batch) : ParseCommandArray(batch[j])
    BY PolicyAssumption DEF PolicyInv, ParseCommandList
  <2>2. Len(sent) = Len(batch)
    BY <2>1, LenProperties
  <2>3. /\ ParseCommandArray(batch[k])
        /\ sent[k] = CommandName(batch[k][1])
    BY <2>1, <2>2
  <2>4. \/ sent[k] \in allowed
        \/ sent[k] \in RatelimitCommands /\ "ratelimit" \in caps
        \/ sent[k] \in RealtimeCommands /\ "realtime" \in caps
    BY <2>3 DEF ParseCommandArray
  <2> QED BY <2>1, <2>4, ValidatedAllows, ScopedCommands DEF RatelimitCommands
<1> QED BY <1>1, PolicyInvariant, PTL
=============================================================================
