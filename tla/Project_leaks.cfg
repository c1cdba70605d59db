\* What config.py's docstring calls structural problems.
CONSTANT Files <- StructuralFiles
SPECIFICATION Spec
INVARIANT ProblemsAreConfigErrors
