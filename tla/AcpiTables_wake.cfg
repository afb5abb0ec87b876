\* The firmware's _PRW methods name GPE 0x6D and another event.
CONSTANTS
    Null = Null
    Systems = {"Darwin", "Other"}
    Firmwares = {"switch", "awac"}
    Gpes = {105, 109}
    Sleeps = {3, 4}
SPECIFICATION AcpiSpec
INVARIANTS
    Gpe6DNeverWakes
