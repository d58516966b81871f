CONSTANT TreeItems = {1, 2, 3, 4, 5, 6, 7, 8}
SPECIFICATION TreeSpec
INVARIANT AlwaysBalanced
