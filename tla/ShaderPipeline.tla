--------------------------- MODULE ShaderPipeline ---------------------------
(***************************************************************************)
(* From bitcode to SPIR-V, as lagfx_air2spv_translate_module drives it: a  *)
(* module is read, a function's body is decoded, its callees are planned   *)
(* and emitted, and every body is lowered.  One stage follows the other.   *)
(*                                                                         *)
(* The planner and the lowering only read the module and the body, which   *)
(* are freed when they are through.  Nothing else looks at them until      *)
(* then, so here they are freed when the translation starts.  Neither      *)
(* stage keeps anything the other one reads: a translation is the plan of  *)
(* one call graph or the lowering of one body.                             *)
(***************************************************************************)
EXTENDS AirReader, MCBodyLowering, MCHelperPlan

pipelineVars == <<readerVars, planVars, lowerVars>>

Translating == stage # "none" \/ phase # "idle"

ShaderInit == ReaderInit /\ PlanInit /\ LowerInit

\* Reading goes on while nothing is translated.
Read == ~Translating /\ ReaderNext /\ UNCHANGED <<planVars, lowerVars>>

translate_module ==
    /\ pc = "decoded" /\ ~Translating
    /\ lagfx_air_module_free
    /\ \/ (\E g \in CallGraphs : StartPlan(g)) /\ UNCHANGED lowerVars
       \/ (\E b \in Bodies : StartBody(b)) /\ UNCHANGED planVars

Plan  == PlanStep /\ UNCHANGED <<readerVars, lowerVars>>
Lower == LowerStep /\ UNCHANGED <<readerVars, planVars>>

ShaderNext == Read \/ translate_module \/ Plan \/ Lower

\* What the code does once it has begun; opening, translating and freeing are its
\* caller's choice.
Proceed == \/ ~Translating /\ Walk /\ UNCHANGED <<planVars, lowerVars>>
           \/ Plan \/ Lower

ShaderSpec == ShaderInit /\ [][ShaderNext]_pipelineVars /\ WF_pipelineVars(Proceed)

\* The caller has the control: nothing is being read or translated.
AtRest == pc \in {"closed", "open", "decoded"} /\ ~Translating

\* A loop shape has no cap: how long the emitted loop goes on is the shader's affair.
InALoop == phase = "run" /\ Looping

\* No stage runs for ever: the walk of a module and of a body end whatever the stream
\* says, although walkers ignore failed seeks and seek backwards; the plan of any call
\* graph ends, a recursive one too; and the code that dispatch emits returns whatever its
\* conditions turn out to be, undefined ones too.  Nothing is claimed of the loop shapes,
\* which are emitted without an iteration cap, nor of streams with a symbol table block
\* in the body, whose walker may go backwards for ever (AirReader's NoSymtabBlocks).
TranslationEnds == []<>(AtRest \/ InALoop)

=============================================================================
