SPECIFICATION Spec
CONSTANTS
    Objects = {o1, o2, o3}
    Slots = {s1, s2}
    Readers = {r1, r2}
    Writer = w
    NULL = NULL
INVARIANTS NoUseAfterFree FreedOnce OnlyErrorsLeak
