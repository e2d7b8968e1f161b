----------------------------- MODULE MCTextPath -----------------------------
(***************************************************************************)
(* TLC instances of TextPath: an entity (Claude, heard as cloud, Opus) with*)
(* its cues, a name with a version (Qwen3) and a piece that is not ASCII.  *)
(***************************************************************************)
EXTENDS TextPath, TLC

MCWord == {"Claude", "claude", "cloud", "Opus", "opus", "opas", "Max", "max",
           "server", "Qwen", "qwen", "3"}
MCTechnical == {"Claude", "Opus", "Max", "Qwen", "3", "-"}
MCLower ==
  ("Claude" :> "claude" @@ "Opus" :> "opus" @@ "Max" :> "max" @@ "Qwen" :> "qwen")
    @@ [p \in MCWord \cup {"-", " ", "zh"} |-> p]

MCRules ==
  <<[canonical |-> <<"Claude">>, aliases |-> <<<<"cloud">>, <<"claude">>>>,
     entity |-> <<<<"Max">>, <<"Opus">>>>, ordinary |-> <<<<"server">>>>],
    [canonical |-> <<"Opus">>, aliases |-> <<<<"opas">>>>,
     entity |-> <<<<"claude">>>>, ordinary |-> <<<<"zh">>>>]>>

MCTexts ==
  BoundedSeq({"cloud", "Claude", "Max", "server", "opas", "zh", " "}, 3) \cup
  {<<"cloud", " ", "Max">>, <<"Claude", " ", "server">>, <<"cloud", "zh", "opas">>,
   <<"cloud", "3", " ", "opus">>, <<"opas", " ", "claude">>, <<"Qwen">>,
   <<"Qwen", "3", "zh", "Qwen">>, <<"Qwen", "-", "3">>, <<"Claude", " ", "Qwen">>,
   <<"zh", "3">>, <<"opas">>}

MCAnswers ==
  {<<>>, <<"zh">>, <<"Qwen">>, <<"qwen", "3">>, <<"3", "3">>, <<"Claude", "zh">>,
   <<"Opus", " ", "Claude">>, <<"Claude", " ", "Max">>, <<"cloud", " ", "server">>,
   <<"zh", "zh", "zh", "zh">>, <<"Qwen", "3", "zh", "Qwen", "3", "zh", "Qwen">>}

Version == Rule(<<"Qwen">>, <<"Qwen", "3">>)
Name == Rule(<<"opas">>, <<"Opus">>)
NoTerm == Rule(<<"Qwen", "-", "3">>, <<"Max">>)
NoArrow == Rule(<<"cloud", "3", " ", "opus", "zh">>, <<"Opus">>)
Spelled == Rule(<<"3">>, <<"zh", "zh", "zh">>)

MCUserVocabularies ==
  {<<>>, <<Version>>, <<Name, Term(<<"qwen">>)>>, <<Spelled>>,
   <<Version, Spelled>>, <<Candidate(<<"Qwen">>)>>,
   <<NoTerm, NoArrow>>, <<Term(<<"Max", "zh", "zh", " ", "zh">>), Spelled>>,
   <<Term(<<"Qwen">>), Term(<<"qwen">>), Name>>, <<Name, Name, Version, Spelled>>}
MCDomainVocabularies ==
  {<<>>, <<Term(<<"zh", "3", "zh", "3", "zh">>), Term(<<"zh", "3", "zh", "3">>)>>,
   <<Term(<<"Qwen">>), Term(<<"qwen">>)>>, <<Rule(<<"zh">>, <<"Max">>)>>}
=============================================================================
