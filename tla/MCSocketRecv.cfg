CONSTANTS
  t1 = t1
  t2 = t2
  srv = srv
  c1 = c1
  c2 = c2
  f1 = f1
  f2 = f2
  f3 = f3
  Tasks = {t1, t2}
  Prio <- Priorities
  Connections = {c1, c2}
  Servers = {srv}
  Owner <- Owners
  Fds = {f1, f2, f3}
  NoFd = NoFd
  UsualFd <- UsualFds
  Polls = 1
  MaxLen = 2
  Methods <- Uses
  Peer <- PeersDo
  MaxIn = 1
  MaxOut = 1
SPECIFICATION SocketSpec
PROPERTIES ErrorsReturned
