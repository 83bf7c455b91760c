CONSTANTS
    Garbage = Garbage
    Years = {1899, 1970, 9999, 10000}
    Months = {0, 1, 11, 12, 13}
    Days = {0, 1, 31, 32}
    Hours = {0, 23, 24}
    Minutes = {0, 59, 60}
SPECIFICATION Spec
PROPERTIES WrittenIsRead ReadIsWritten CompareIsChronological
CHECK_DEADLOCK FALSE
