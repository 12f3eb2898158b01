---------------------------- MODULE MC_ConfigLoad ----------------------------
EXTENDS ConfigLoad, SequencesExt, TLC

\* int() accepts the decimal texts among the values and rejects "" and "x".
MCIntOf == "0" :> 0 @@ "2" :> 2 @@ "60" :> 60

\* load_config's loop as the code runs it: ParseLine on each line in turn.
LoopLoad(config, f) == FoldLeft(ParseLine, config, f)

\* LoadLines is what the loop computes, for both programs' defaults and
\* every file within the bound.
ASSUME LoadLinesIsLoop ==
    \A f \in Files \ {Absent} :
        /\ LoadLines(DaemonDefaults, f) = LoopLoad(DaemonDefaults, f)
        /\ LoadLines(ClientDefaults, f) = LoopLoad(ClientDefaults, f)

=============================================================================
