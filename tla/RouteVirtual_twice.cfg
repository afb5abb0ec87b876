\* Two wrappers; one of them routes the slot again behind the other.
CONSTANTS
    Null = Null
    Original = Original
    Routers = {r1, r2}
    Terminals = {}
    Callers = {c1}
SPECIFICATION Spec
PROPERTIES
    NotReplacedTwice
