---------------------------- MODULE MCSessionPath ----------------------------
(***************************************************************************)
(* TLC instances of SessionPath: what the user chooses between.  Sizes are *)
(* in units of which a tenth of a second is one, a pipe holds one and a    *)
(* chunk is two.                                                           *)
(***************************************************************************)
EXTENDS SessionPath, TLC

CONSTANTS Gemini, DashScope, Lan

Built(asr, asrUrl, asrKey, cloudUrl, cloudKey, cloud) ==
  [asr |-> asr, asrUrl |-> asrUrl, asrKey |-> asrKey, cloudUrl |-> cloudUrl,
   cloudKey |-> cloudKey, cloud |-> cloud, max |-> 2]

MCDefault == Built("local", DashScope, TRUE, Gemini, TRUE, TRUE)
MCValidUrls == {Gemini, DashScope, Lan}

\* What needs no key in one configuration needs one in another.
MCConfigurations ==
  {Built("openai_compatible", Lan, FALSE, Gemini, TRUE, TRUE),
   Built("qwen_api", DashScope, TRUE, Lan, FALSE, TRUE),
   Built("local", DashScope, TRUE, Gemini, TRUE, FALSE)}

MCKeyrings == {{"asr", "legacy"}}
=============================================================================
