SPECIFICATION Spec
CONSTANTS
    p1 = p1  p2 = p2  p3 = p3  s1 = s1
    Quotes = Quotes  Trades = Trades
    Pid = {p1, p2, p3}
    Symbol = {s1}
    Type = {Quotes, Trades}
SYMMETRY Symm
INVARIANTS TypeOK Served EndsWithLastClient
CHECK_DEADLOCK FALSE
