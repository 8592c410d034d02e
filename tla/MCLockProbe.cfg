SPECIFICATION LockSpec
CONSTANT Worker = {w1, w2}
PROPERTY ProbesRefuseNobody
