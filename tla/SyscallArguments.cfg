SPECIFICATION SyscallSpec
CONSTANTS
  Contents = {"this", "that"}
  Bytes = {30, 158}
INVARIANT
  ArgumentsAreDocumented
