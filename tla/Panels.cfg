SPECIFICATION Spec
CONSTANT None = None
CHECK_DEADLOCK FALSE
PROPERTIES SessionHeals OutageHeals PagesSettle
