CONSTANT Questions <- MCQuestions
SPECIFICATION Spec
INVARIANTS  AppliedIsWhole FilterKillsExactly
           SanitisedIsClean EachTextItsOwn DepthCapExact 
             EverySkillAccounted KeyFollowsInputs
           HeadsReproduced
CHECK_DEADLOCK FALSE
