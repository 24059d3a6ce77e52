CONSTANTS
  Users = {u1, u2}
  a = a
  Chars = {a}
  LF = LF
  CR = CR
  FC_STOP = FC_STOP
  FC_START = FC_START
  NULL = NULL
  snd_bufsz = 2
  rcv_bufsz = 2
  Typed = {LF}
  Ioctls = {{"FCSND", "FCANY"}}
  Strings <- Lines
  MaxLen = 2
  Releases = {"write", "read"}
SYMMETRY Symmetry
SPECIFICATION SerialSpec
INVARIANTS TokensOK SendingOK NeverError
PROPERTIES SentInOrder
