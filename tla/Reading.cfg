\* The values of the parts' constants are in ReadingValues and MemoryValues.
SPECIFICATION EitherSpec
INVARIANTS ReadsWhole 
 
CHECK_DEADLOCK FALSE
