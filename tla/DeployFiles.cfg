\* .env files of up to three lines, a pull of up to two events.
SPECIFICATION Spec
CONSTANTS
  Files <- MCFiles
  Lines <- MCLines
  MaxLines = 3
  MaxEvents = 1
INVARIANTS
  StartsWhatWasAsked
  StartsWhatWasPulled
\* The deploy ends.
CHECK_DEADLOCK FALSE
