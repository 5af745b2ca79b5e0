\* The BUSY line request may fail on a connect, and the failure is ignored.
CONSTANT FlakyLines = {"busy"}
SPECIFICATION Spec
PROPERTY BusSpec
