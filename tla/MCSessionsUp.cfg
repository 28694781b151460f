SPECIFICATION Spec
CONSTANTS
    c1 = c1  c2 = c2  a = a  b = b  d = d  e = e  p = p  q = q
    NULL = NULL
    NoPassword = NoPassword
    Clients <- TwoClients
    Channels <- FourChannels
    Passwords <- TwoPasswords
    MaxChannels = 3
CHECK_DEADLOCK FALSE
SYMMETRY Symmetry
INVARIANTS StaysUp
