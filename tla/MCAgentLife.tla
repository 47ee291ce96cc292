---------------------------- MODULE MCAgentLife -----------------------------
(* One task, with what decide() reads from a dozen generations.            *)
EXTENDS AgentLife

Label(word) == [kind |-> "label", word |-> word]
Payload == [kind |-> "payload", word |-> ""]
Prose == [kind |-> "text", word |-> "prose"]
Block(action, shape) ==
  <<Label(action), Payload, [kind |-> "open", word |-> shape], [kind |-> "close", word |-> ""]>>

Generations ==
  {<<>>,
   <<Label("THINK"), Payload, Prose>>,
   <<Label("REPORT"), Payload, Prose>>,
   <<Label("DIE"), Payload, Prose>>,
   <<Label("SPAWN"), Prose>>,
   Block("SPAWN", "batch"), Block("SPAWN", "hollow"), Block("SPAWN", "described"),
   Block("TOOL", "call"), Block("TOOL", "hollow")}

ReadDecisions == {Read(text) : text \in Generations}

SmallReports == {"placeholder", "echo", "listing", "heading", "short", "long"}

SmallCompletions ==
  {<< <<"accept">> >>,
   << <<"reject", "accept">> >>,
   << <<"spaced_reject", "accept">> >>,
   << <<"prose">>, <<"Example:", "accept">> >>,
   << <<"prose", "spaced_accept">> >>}

Setting(isRoot, forSoftware, withTools, donors) ==
  [root |-> isRoot, software |-> forSoftware, tools |-> withTools, donors |-> donors]

SmallSettings ==
  {Setting(FALSE, FALSE, FALSE, {Entry("other", "accepted", "near")}),
   Setting(FALSE, FALSE, FALSE, {Entry("other", "accepted", "same"),
                                 Entry("other", "rejected", "same")}),
   Setting(TRUE, FALSE, FALSE, {Entry("other", "accepted", "same")}),
   Setting(FALSE, TRUE, FALSE, {}),
   Setting(FALSE, FALSE, TRUE, {})}
=============================================================================
