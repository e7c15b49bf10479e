-------------------------- MODULE MCPromptLifecycle --------------------------
\* Instances of PromptLifecycle for TLC.
EXTENDS PromptLifecycle

CONSTANTS p1, p2, p3, p4, t1, t2

\* Two prompts share a text.
MCTexts == {t1, t2}
MCTextOf == [p \in Prompts |-> IF p \in {p1, p2} THEN t1 ELSE t2]

\* Executed before the table daily_model_runs existed.
MCLegacyRows == { {"prompt_models", "ai_runs", "run_brands", "daily_prompt_runs"} }

\* Never executed.
MCFreshRows == { {"prompt_models"} }

==============================================================================
