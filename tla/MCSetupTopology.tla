--------------------------- MODULE MCSetupTopology ---------------------------
(***************************************************************************)
(* Instances of SetupTopology for TLC: an exchange x, a queue q and its    *)
(* binding b, set up in ways that are sound, repeat themselves, contradict *)
(* themselves, come in the wrong order, only ask, or swallow a refusal.    *)
(***************************************************************************)
EXTENDS SetupTopology, TLC

CONSTANTS a1, a2, x, q, b, dlx

MCPlain == [
    queue_type |-> Absent, dead_letter_exchange |-> Absent, dead_letter_routing_key |-> Absent]
MCDead == [MCPlain EXCEPT !.dead_letter_exchange = dlx]

MCCall(name, config, needs) ==
    [name |-> name, config |-> config, needs |-> needs,
     valid |-> TRUE, passive |-> FALSE, tolerant |-> FALSE]
MCExchange == MCCall(x, MCPlain, {})
MCQueue == MCCall(q, MCDead, {})
MCBinding == MCCall(b, MCPlain, {x, q})
MCOther == MCCall(q, MCPlain, {})

MCInvalid == <<MCQueue, [MCExchange EXCEPT !.valid = FALSE], MCOther>>
MCSound == <<MCExchange, MCQueue, MCBinding, MCQueue>>
MCAsking == <<[MCOther EXCEPT !.passive = TRUE], MCQueue, MCExchange>>
MCSwallowing == <<[MCOther EXCEPT !.tolerant = TRUE], MCExchange>>
MCSetups == {s \in [KnownAliases -> {MCSound, MCAsking, MCSwallowing, MCInvalid, <<>>,
        <<MCExchange, MCQueue, MCOther>>, <<MCBinding, MCExchange, MCQueue>>}] :
    s[a2] \in {MCSound, MCSwallowing}}

MCBrokers ==
    {x :> ex @@ q :> queue @@ b :> Missing :
        ex \in {Missing, Arguments(MCPlain)},
        queue \in {Missing, Arguments(MCPlain), Arguments(MCDead)}}

=============================================================================
