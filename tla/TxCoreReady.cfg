SPECIFICATION Spec
CONSTANTS
  Words = {0, 1}
  Zero = 0
  WORDS = 2
  Legal <- MCLegal
  Indices = {0, 1}
  Index0 = 0
  Written = {0}
  SETTLE = 2
PROPERTY ValidStartsWhenEnabled
