\* Another system than Darwin boots with the tables.
CONSTANTS
    Null = Null
    Systems = {"Darwin", "Other"}
    Firmwares = {"switch", "awac"}
    Gpes = {105, 109}
    Sleeps = {3, 4}
SPECIFICATION AcpiSpec
INVARIANTS
    SbusAvoidsOthers
