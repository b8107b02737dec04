SPECIFICATION RetrySpec
CONSTANT MaxRestarts = 1
PROPERTY ErrorIsLeft
