------------------------------ MODULE KvSession ------------------------------
(***************************************************************************)
(* The inference context kept between turns:                               *)
(* src/src-tauri/src/ai_engine/runtime.rs.  A GenerationSession is a       *)
(* llama.cpp context and a list of the tokens decoded into it; a turn      *)
(* reuses the prefix its prompt shares with that list and decodes the      *)
(* rest.  The list is only the code's belief; kv is what the context       *)
(* really holds, each token with the LoRA adapter it was decoded under.    *)
(*                                                                         *)
(* Everything runs under the runtime mutex (ModelHeld in Scheduler.tla),   *)
(* so one turn or load is under way at a time; the cancel flag can change  *)
(* between any two chunks or tokens.                                       *)
(***************************************************************************)
EXTENDS Naturals, Sequences

CONSTANTS
  Tokens,     (* the vocabulary                                            *)
  Adapters,   (* LoRA adapters with their scale                            *)
  Base,       (* no adapter                                                *)
  NoModel, NoSession,
  Contexts,   (* context lengths a model is loaded with                    *)
  Batch,      (* n_batch of a context                                      *)
  MaxTokens,  (* params.max_tokens                                         *)
  MaxPrompt,  (* bound: prompt length                                      *)
  MaxLoads    (* bound: model loads                                        *)

Bindings == Adapters \cup {Base}
LoadedModels == [load : Nat, nctx : Contexts, recurrent : BOOLEAN]
Sessions == [tokens : Seq(Tokens), nctx : Contexts, key : Bindings, bound : Bindings, load : Nat]
TurnStates ==
  [pc : {"idle", "context", "trim", "prefill", "decode"}, prompt : Seq(Tokens),
   want : Bindings, base : Nat, said : Seq(Tokens), fresh : BOOLEAN, failure : BOOLEAN]

KvAssumption ==
  /\ Base \notin Adapters
  /\ NoSession \notin Sessions
  /\ Contexts \subseteq Nat \ {0}
  /\ Batch \in Nat \ {0}
  /\ MaxTokens \in Nat /\ MaxPrompt \in Nat /\ MaxLoads \in Nat

VARIABLES
  model,     (* the loaded model: which load it is, its context length, and *)
             (* whether its memory is recurrent; or NoModel                *)
  session,   (* GenerationSession, or NoSession                            *)
  kv,        (* what sequence 0 of the context holds                       *)
  adapters,  (* adapter_cache: adapters initialised, with their load       *)
  turn,      (* the turn under way                                         *)
  loads      (* loads so far                                               *)

vars == <<model, session, kv, adapters, turn, loads>>

-----------------------------------------------------------------------------
Prompts == UNION {[1..n -> Tokens] : n \in 0..MaxPrompt}

(* base: position the next prompt chunk goes to; said: tokens generated;   *)
(* fresh: some prompt token was decoded in this turn; failure:             *)
(* last_adapter_failure.                                                   *)
Quiet == [pc |-> "idle", prompt |-> <<>>, want |-> Base, base |-> 0,
          said |-> <<>>, fresh |-> FALSE, failure |-> FALSE]

At(pc) == turn.pc = pc
Min2(a, b) == IF a <= b THEN a ELSE b

(* reusable_prefix: the longest common prefix, one short of the prompt.    *)
Agree(cached, prompt, n) == \A i \in 1..n : cached[i] = prompt[i]

ReusablePrefix(cached, prompt) ==
  CHOOSE n \in 0..Min2(Len(cached), Len(prompt) - 1) :
    /\ Agree(cached, prompt, n)
    /\ \A m \in (n + 1)..Min2(Len(cached), Len(prompt) - 1) : ~Agree(cached, prompt, m)

(* Tokens decoded under the binding in force.                              *)
Decoded(tokens, binding) == [i \in 1..Len(tokens) |-> [token |-> tokens[i], under |-> binding]]

(* The session is dropped, and with it the context and its cache.          *)
EndSession == session' = NoSession /\ kv' = <<>>

(* The turn returns; what it recorded about its adapter stays.             *)
Return == turn' = [turn EXCEPT !.pc = "idle"]

Init ==
  /\ model = NoModel
  /\ session = NoSession
  /\ kv = <<>>
  /\ adapters = {}
  /\ turn = Quiet
  /\ loads = 0

-----------------------------------------------------------------------------
(* load_model and unload_model.                                            *)

(* The context goes before the model it borrows, and so do the adapters.   *)
UnloadModel ==
  /\ At("idle")
  /\ model # NoModel
  /\ EndSession
  /\ adapters' = {}
  /\ model' = NoModel
  /\ UNCHANGED <<turn, loads>>

(* A load unloads what was there; it may then fail.                        *)
LoadModel ==
  /\ At("idle")
  /\ loads < MaxLoads
  /\ loads' = loads + 1
  /\ \/ model' = NoModel
     \/ \E n \in Contexts, recurrent \in BOOLEAN :
          model' = [load |-> loads + 1, nctx |-> n, recurrent |-> recurrent]
  /\ EndSession
  /\ adapters' = IF model = NoModel THEN adapters ELSE {}
  /\ UNCHANGED turn

-----------------------------------------------------------------------------
(* generate_with_capability.                                               *)

(* A prompt that is empty or does not fit is refused before the session is *)
(* touched; so is one that cannot be rendered.                             *)
Begin(p, want) ==
  LET refused == Len(p) = 0 \/ Len(p) >= model.nctx IN
  /\ At("idle")
  /\ model # NoModel
  /\ turn' = [Quiet EXCEPT !.prompt = p, !.want = want,
                           !.pc = IF refused THEN "idle" ELSE "context"]
  /\ UNCHANGED <<model, session, kv, adapters, loads>>

(* The live context serves if its window and its adapter are the ones      *)
(* wanted; what it is filed under is the adapter asked for.                *)
Reusable == session # NoSession /\ session.nctx = model.nctx /\ session.key = turn.want

ReuseContext ==
  /\ At("context")
  /\ Reusable
  /\ turn' = [turn EXCEPT !.pc = "trim"]
  /\ UNCHANGED <<model, session, kv, adapters, loads>>

(* A new context may be refused, its adapter may fail to load or to bind;  *)
(* the turn then runs on the base model and the failure is recorded.       *)
NewContext ==
  /\ At("context")
  /\ ~Reusable
  /\ kv' = <<>>
  /\ \/ session' = NoSession /\ adapters' = adapters /\ Return
     \/ \E bound \in {turn.want, Base}, initialised \in BOOLEAN :
          /\ bound # Base => initialised
          /\ adapters' = IF initialised /\ turn.want # Base
                         THEN adapters \cup {[adapter |-> turn.want, load |-> model.load]}
                         ELSE adapters
          /\ session' = [tokens |-> <<>>, nctx |-> model.nctx, key |-> turn.want,
                         bound |-> bound, load |-> model.load]
          /\ turn' = [turn EXCEPT !.pc = "trim", !.failure = (bound # turn.want)]
  /\ UNCHANGED <<model, loads>>

Reuse == ReusablePrefix(session.tokens, turn.prompt)

(* Mutants of Kept: a refused trim is taken for a done one; a recurrent    *)
(* memory is never reused.                                                 *)
KeptWhenRefused ==
  IF Len(session.tokens) > Reuse /\ model.recurrent THEN Len(session.tokens) ELSE Reuse
NeverKept == IF model.recurrent THEN 0 ELSE Reuse

(* Everything after the divergence goes.  A recurrent memory cannot drop   *)
(* a partial prefix: then the sequence starts over.                        *)
Kept == IF Len(session.tokens) > Reuse /\ model.recurrent THEN 0 ELSE Reuse

Trim ==
  /\ At("trim")
  /\ session' = [session EXCEPT !.tokens = SubSeq(@, 1, Kept)]
  /\ kv' = SubSeq(kv, 1, Kept)
  /\ turn' = [turn EXCEPT !.pc = "prefill", !.base = Kept]
  /\ UNCHANGED <<model, adapters, loads>>

(* One chunk of the prompt.  llama.cpp rejects a batch that does not       *)
(* continue the sequence.  A failure or a cancel drops the session.        *)
Prefill ==
  LET end   == Min2(turn.base + Batch, Len(turn.prompt))
      chunk == SubSeq(turn.prompt, turn.base + 1, end)
  IN
  /\ At("prefill")
  /\ \/ EndSession /\ Return
     \/ /\ turn.base = Len(kv)
        /\ kv' = kv \o Decoded(chunk, session.bound)
        /\ session' = [session EXCEPT !.tokens = @ \o chunk]
        /\ turn' = [turn EXCEPT !.base = end, !.fresh = @ \/ chunk # <<>>,
                      !.pc = IF end = Len(turn.prompt) THEN "decode" ELSE "prefill"]
  /\ UNCHANGED <<model, adapters, loads>>

(* The answer ends: cancelled, out of tokens or context, or by itself.     *)
Finish ==
  /\ At("decode")
  /\ Return
  /\ UNCHANGED <<model, session, kv, adapters, loads>>

(* A token is sampled and decoded at position n_cur; if that fails the     *)
(* session is dropped.                                                     *)
Generate(t) ==
  LET n_cur == Len(turn.prompt) + Len(turn.said) IN
  /\ At("decode")
  /\ Len(turn.said) < MaxTokens
  /\ n_cur < model.nctx
  /\ \/ EndSession /\ Return
     \/ /\ n_cur = Len(kv)
        /\ kv' = kv \o Decoded(<<t>>, session.bound)
        /\ session' = [session EXCEPT !.tokens = Append(@, t)]
        /\ turn' = [turn EXCEPT !.said = Append(@, t)]
  /\ UNCHANGED <<model, adapters, loads>>

-----------------------------------------------------------------------------
Next ==
  \/ UnloadModel \/ LoadModel
  \/ \E p \in Prompts, want \in Bindings : Begin(p, want)
  \/ ReuseContext \/ NewContext \/ Trim \/ Prefill \/ Finish
  \/ \E t \in Tokens : Generate(t)

Spec == Init /\ [][Next]_vars

-----------------------------------------------------------------------------
(* Properties.                                                             *)

(* Every variable keeps its type, and no turn says more than it may.       *)
TypeOK ==
  /\ model = NoModel \/ model \in LoadedModels
  /\ session = NoSession \/ session \in Sessions
  /\ kv \in Seq([token : Tokens, under : Bindings])
  /\ adapters \subseteq [adapter : Adapters, load : Nat]
  /\ turn \in TurnStates
  /\ Len(turn.said) <= MaxTokens
  /\ loads \in 0..MaxLoads

(* "tokens mirrors, exactly, what has been decoded": the list and the      *)
(* cache agree at every step, through trims that are refused, cancels and  *)
(* failed decodes, under the context's own binding and the model that is   *)
(* loaded now.  Reuse is invisible: every token is sampled from exactly    *)
(* the turn's own prompt and what it has said, as a context built afresh   *)
(* would have it, and the sampler has logits of this turn to read, even    *)
(* when the whole prompt was cached.                                       *)
CacheMirrorsConversation ==
  /\ IF session = NoSession THEN kv = <<>>
     ELSE /\ kv = Decoded(session.tokens, session.bound)
          /\ model # NoModel /\ session.load = model.load
  /\ \A a \in adapters : model # NoModel /\ a.load = model.load
  /\ At("decode") =>
       kv = Decoded(turn.prompt \o turn.said, session.bound) /\ turn.fresh

(* Continuing a conversation decodes only what is new, on every kind of    *)
(* model: nothing of a cached prompt prefix is decoded again.              *)
IsContinuation ==
  /\ Len(session.tokens) < Len(turn.prompt)
  /\ Agree(session.tokens, turn.prompt, Len(session.tokens))
ContinuationIsFree ==
  [][At("trim") /\ IsContinuation => turn'.base = Len(session.tokens)]_vars

(* "Each turn reports its own outcome": a turn that reports no adapter     *)
(* failure runs under the adapter it was announced with.                   *)
AdapterHonest == At("decode") /\ ~turn.failure => session.bound = turn.want
=============================================================================
